---- MODULE Spec2Model ----
(***************************************************************************)
(* AGV Fleet Commander: the fleet orchestration and simulation engine.     *)
(*                                                                         *)
(* State: the in-memory repository of CSVDataAdapter (_agvs, _tasks), the  *)
(* advisor configuration chosen by startup_event, and the outcome of the   *)
(* last operation.  Operations: the simulation tick (movement phase then   *)
(* battery phase), assign_optimal_tasks, send_agv_to_position,             *)
(* emergency_stop_agv and create_emergency_task.                           *)
(*                                                                         *)
(* Units.  battery_level is a float percentage in the source; here it is   *)
(* an integer number of hundredths of a percent (100% = 10000), so that    *)
(* the idle trickle 0.01..0.05 is representable.  Positions are integer    *)
(* coordinates; every roster below lies on the x axis, where the           *)
(* simulator's vector arithmetic is exact.  Timestamps are abstracted to   *)
(* set / not set.  Each random.uniform draw is a choice between the two    *)
(* end points of its interval.                                             *)
(*                                                                         *)
(* disk is what agvs.csv and tasks.csv hold (_save_agvs and _save_tasks     *)
(* write the whole dictionaries).  pc is the position of run_simulation:    *)
(* pc.k is 0 while it is suspended in asyncio.sleep, and inside a tick the *)
(* number of the loop iteration it runs next.  probe holds the argument    *)
(* and the result of the last application of one of the pure functions.    *)
(***************************************************************************)
EXTENDS Integers, Sequences, FiniteSets, TLC

VARIABLES advisor, agvs, tasks, last, ticks, calls, disk, pc, probe

vars == <<advisor, agvs, tasks, last, ticks, calls, disk, pc, probe>>

(***************************************************************************)
(* Bounds of the model.                                                    *)
(***************************************************************************)
MaxTicks == 2
MaxCalls == 1
LiveTicks == 2
LiveCalls == 2

(***************************************************************************)
(* Program constants (battery in hundredths of a percent).                 *)
(***************************************************************************)
BatteryMin == 0
BatteryMax == 10000
AvailableBattery == 2000
ReachMargin == 1000
GreedyBattery == 3000
ArriveRadius == 5
StepLength == 10
MoveDrainLo == 10
MoveDrainHi == 30
ChargeGainLo == 200
ChargeGainHi == 500
ChargedBattery == 9000
IdleDrainLo == 1
IdleDrainHi == 5
LowBattery == 2000

None == "None"

Statuses == {"IDLE", "MOVING", "TRANSPORTING", "CHARGING", "MAINTENANCE"}

(***************************************************************************)
(* Identifiers.  The dictionaries _agvs and _tasks iterate in insertion    *)
(* order: AGVOrder and TaskOrder.  URGENT-1 is the id create_emergency_task*)
(* generates (it is later than every id loaded at start-up, and resolves   *)
(* to nothing until it is created).  AGV-X is an id that resolves to no    *)
(* AGV.                                                                    *)
(***************************************************************************)
AGVOrder == <<"AGV-001", "AGV-002">>
AGVIds == {AGVOrder[i] : i \in 1..Len(AGVOrder)}
TaskOrder == <<"TSK-001", "TSK-002", "URGENT-1">>
TaskIds == {TaskOrder[i] : i \in 1..Len(TaskOrder)}
UrgentId == "URGENT-1"
UnknownAGV == "AGV-X"

Pos(x, y) == [x |-> x, y |-> y]

(***************************************************************************)
(* Arithmetic helpers.                                                     *)
(***************************************************************************)
Max(a, b) == IF a >= b THEN a ELSE b
Min(a, b) == IF a <= b THEN a ELSE b

RECURSIVE IsqrtIn(_, _, _)
IsqrtIn(n, lo, hi) ==
    IF lo >= hi THEN lo
    ELSE LET mid == (lo + hi + 1) \div 2
         IN IF mid * mid <= n THEN IsqrtIn(n, mid, hi) ELSE IsqrtIn(n, lo, mid - 1)

\* floor of the square root (46340 is the largest root of a 32-bit integer)
Isqrt(n) == IsqrtIn(n, 0, Min(n, 46340))

\* n / d rounded to the nearest integer, d > 0
RoundDiv(n, d) == IF n >= 0 THEN (2 * n + d) \div (2 * d)
                  ELSE 0 - ((2 * (0 - n) + d) \div (2 * d))

(***************************************************************************)
(* Entities (domain/entities.py).                                          *)
(***************************************************************************)
\* Position.distance_to, squared: comparisons of distances are made on it
distance2(p, q) == (p.x - q.x) * (p.x - q.x) + (p.y - q.y) * (p.y - q.y)

is_available(agv) ==
    /\ agv.status = "IDLE"
    /\ agv.battery_level > AvailableBattery
    /\ agv.current_task_id = None

\* battery_level >= distance / 100 + 10, in hundredths: B >= distance + 1000
can_reach(agv, destination) ==
    /\ agv.battery_level - ReachMargin >= 0
    /\ (agv.battery_level - ReachMargin) * (agv.battery_level - ReachMargin)
          >= distance2(agv.position, destination)

is_completed(task) == task.completed_at

(***************************************************************************)
(* Repository queries (adapters/data_adapter.py, CSVDataAdapter).          *)
(***************************************************************************)
\* the subsequence of seq whose elements satisfy Keep, in order
RECURSIVE FilterSeq(_, _)
FilterSeq(seq, keep) ==
    IF seq = <<>> THEN <<>>
    ELSE IF Head(seq) \in keep THEN <<Head(seq)>> \o FilterSeq(Tail(seq), keep)
         ELSE FilterSeq(Tail(seq), keep)

get_agv_by_id(A, agv_id) == agv_id \in AGVIds

get_task_by_id(T, task_id) == task_id \in TaskIds /\ T[task_id].present

get_available_agvs(A) ==
    FilterSeq(AGVOrder, {a \in AGVIds : is_available(A[a])})

\* variant: a task counts as pending until it is completed
get_pending_tasksUntilCompleted(T) ==
    FilterSeq(TaskOrder, {t \in TaskIds : T[t].present /\ ~is_completed(T[t])})

get_pending_tasks(T) ==
    FilterSeq(TaskOrder, {t \in TaskIds : /\ T[t].present
                                          /\ ~is_completed(T[t])
                                          /\ T[t].assigned_agv_id = None})

(***************************************************************************)
(* The simulator (adapters/data_adapter.py, SimulationDataUpdater).        *)
(* A draw is what the random source gives one AGV in one tick: hi selects  *)
(* the upper end of the uniform interval the AGV's branch draws from, trig *)
(* is the outcome of random.random() < 0.3.                                *)
(***************************************************************************)
Draws == [hi : BOOLEAN, trig : BOOLEAN]

\* variant: the drain without the clamp at 0
DrainBatteryUnclamped(battery_level, amount) == battery_level - amount

\* max(0, battery_level - amount)
DrainBattery(battery_level, amount) == Max(BatteryMin, battery_level - amount)

\* variant: the charge without the cap at 100
ChargeBatteryUncapped(battery_level, amount) == battery_level + amount

\* min(100, battery_level + amount)
ChargeBattery(battery_level, amount) == Min(BatteryMax, battery_level + amount)

\* whether the movement phase finds this AGV driving towards a known task
Driving(agv, T) ==
    /\ agv.status \in {"MOVING", "TRANSPORTING"}
    /\ agv.current_task_id # None
    /\ get_task_by_id(T, agv.current_task_id)

\* whether the movement phase finds the AGV within reach of its destination
Arrives(agv, T) ==
    /\ Driving(agv, T)
    /\ distance2(T[agv.current_task_id].destination, agv.position)
          <= ArriveRadius * ArriveRadius

\* variant: a full step of 10 whatever the distance left
StepTowardsFull(position, destination) ==
    LET dx == destination.x - position.x
        dy == destination.y - position.y
        d2 == dx * dx + dy * dy
    IN Pos(position.x + RoundDiv(StepLength * dx, Isqrt(d2)),
           position.y + RoundDiv(StepLength * dy, Isqrt(d2)))

\* position += (dx, dy) * min(10, distance) / distance
StepTowards(position, destination) ==
    LET dx == destination.x - position.x
        dy == destination.y - position.y
        d2 == dx * dx + dy * dy
    IN IF d2 >= StepLength * StepLength
       THEN Pos(position.x + RoundDiv(StepLength * dx, Isqrt(d2)),
                position.y + RoundDiv(StepLength * dy, Isqrt(d2)))
       ELSE Pos(position.x + dx, position.y + dy)

\* variant: an arriving AGV is released where it stands, not moved onto the
\* destination
MoveOneNoSnap(agv, T, draw) ==
    IF ~Driving(agv, T) THEN agv
    ELSE IF Arrives(agv, T)
         THEN [agv EXCEPT !.status = "IDLE", !.current_task_id = None]
         ELSE [agv EXCEPT
                 !.position = StepTowards(agv.position,
                                          T[agv.current_task_id].destination),
                 !.battery_level =
                     DrainBattery(agv.battery_level,
                                  IF draw.hi THEN MoveDrainHi ELSE MoveDrainLo)]

\* one iteration of the loop of simulate_agv_movement
MoveOne(agv, T, draw) ==
    IF ~Driving(agv, T) THEN agv
    ELSE IF Arrives(agv, T)
         THEN [agv EXCEPT !.position = T[agv.current_task_id].destination,
                          !.status = "IDLE",
                          !.current_task_id = None]
         ELSE [agv EXCEPT
                 !.position = StepTowards(agv.position,
                                          T[agv.current_task_id].destination),
                 !.battery_level =
                     DrainBattery(agv.battery_level,
                                  IF draw.hi THEN MoveDrainHi ELSE MoveDrainLo)]

\* the tasks after simulate_agv_movement: every arrival stamps completed_at
CompleteArrived(A, T) ==
    [t \in TaskIds |->
        IF \E a \in AGVIds : Arrives(A[a], T) /\ A[a].current_task_id = t
        THEN [T[t] EXCEPT !.completed_at = TRUE]
        ELSE T[t]]

simulate_agv_movement(A, T, rnd) == [a \in AGVIds |-> MoveOne(A[a], T, rnd[a])]

\* variant: an idle AGV may start charging whatever its battery level
BatteryOneAnyLevel(agv, draw) ==
    IF agv.status = "CHARGING"
    THEN LET b == ChargeBattery(agv.battery_level,
                                IF draw.hi THEN ChargeGainHi ELSE ChargeGainLo)
         IN [agv EXCEPT !.battery_level = b,
                        !.status = IF b >= ChargedBattery THEN "IDLE" ELSE "CHARGING"]
    ELSE IF agv.status = "IDLE"
    THEN LET b == DrainBattery(agv.battery_level,
                               IF draw.hi THEN IdleDrainHi ELSE IdleDrainLo)
         IN [agv EXCEPT !.battery_level = b,
                        !.status = IF draw.trig THEN "CHARGING" ELSE "IDLE"]
    ELSE agv

\* variant: an idle AGV that starts charging keeps the battery it had
BatteryOneNoIdleDrain(agv, draw) ==
    IF agv.status = "CHARGING"
    THEN LET b == ChargeBattery(agv.battery_level,
                                IF draw.hi THEN ChargeGainHi ELSE ChargeGainLo)
         IN [agv EXCEPT !.battery_level = b,
                        !.status = IF b >= ChargedBattery THEN "IDLE" ELSE "CHARGING"]
    ELSE IF agv.status = "IDLE"
    THEN LET b == DrainBattery(agv.battery_level,
                               IF draw.hi THEN IdleDrainHi ELSE IdleDrainLo)
         IN IF b < LowBattery /\ draw.trig
            THEN [agv EXCEPT !.status = "CHARGING"]
            ELSE [agv EXCEPT !.battery_level = b]
    ELSE agv

\* variant: every AGV that is not charging gets the idle drain
BatteryOneElseIdle(agv, draw) ==
    IF agv.status = "CHARGING"
    THEN LET b == ChargeBattery(agv.battery_level,
                                IF draw.hi THEN ChargeGainHi ELSE ChargeGainLo)
         IN [agv EXCEPT !.battery_level = b,
                        !.status = IF b >= ChargedBattery THEN "IDLE" ELSE "CHARGING"]
    ELSE LET b == DrainBattery(agv.battery_level,
                               IF draw.hi THEN IdleDrainHi ELSE IdleDrainLo)
         IN [agv EXCEPT !.battery_level = b,
                        !.status = IF b < LowBattery /\ draw.trig
                                   THEN "CHARGING" ELSE agv.status]

\* one iteration of the loop of simulate_battery_changes
BatteryOne(agv, draw) ==
    IF agv.status = "CHARGING"
    THEN LET b == ChargeBattery(agv.battery_level,
                                IF draw.hi THEN ChargeGainHi ELSE ChargeGainLo)
         IN [agv EXCEPT !.battery_level = b,
                        !.status = IF b >= ChargedBattery THEN "IDLE" ELSE "CHARGING"]
    ELSE IF agv.status = "IDLE"
    THEN LET b == DrainBattery(agv.battery_level,
                               IF draw.hi THEN IdleDrainHi ELSE IdleDrainLo)
         IN [agv EXCEPT !.battery_level = b,
                        !.status = IF b < LowBattery /\ draw.trig
                                   THEN "CHARGING" ELSE "IDLE"]
    ELSE agv

simulate_battery_changes(A, rnd) == [a \in AGVIds |-> BatteryOne(A[a], rnd[a])]

\* the calls of log_event and send_alert an operation makes: task_assigned
\* after each pair appended to assignments, manual_agv_move after a manual
\* move was saved, an urgent alert after an emergency stop was saved and
\* after the assignment run of create_emergency_task returned
Notifications(op, outcome, agv_id, assignments) ==
    IF op \in {"assign", "create"}
    THEN [i \in 1..Len(assignments) |->
             [type |-> "task_assigned", agv_id |-> assignments[i].agv_id,
              task_id |-> assignments[i].task_id]]
         \o (IF op = "create" /\ outcome = "returned"
             THEN <<[type |-> "alert", agv_id |-> None, task_id |-> None]>>
             ELSE <<>>)
    ELSE IF op = "move" /\ outcome = "success"
    THEN <<[type |-> "manual_agv_move", agv_id |-> agv_id, task_id |-> None]>>
    ELSE IF op = "stop" /\ outcome = "success"
    THEN <<[type |-> "alert", agv_id |-> agv_id, task_id |-> None]>>
    ELSE <<>>

\* what last keeps of an operation: its name, how it ended ("returned",
\* "raised", or the "success" / "error" value it returned), the AGV id a
\* control operation was given, the pairs assign_optimal_tasks committed in
\* order, how many recommended pairs it dropped, the assignments list it
\* had built, the task an emergency stop took from its AGV, and the events
\* and alerts it handed to the notification service
Result(op, outcome, agv_id, log, assignments) ==
    [op |-> op, outcome |-> outcome, agv_id |-> agv_id,
     committed |-> SelectSeq(log, LAMBDA e : e.decision = "committed"),
     dropped |-> Len(SelectSeq(log, LAMBDA e : e.decision = "dropped")),
     assignments |-> assignments, released |-> None,
     events |-> Notifications(op, outcome, agv_id, assignments)]

\* _save_agvs and _save_tasks: the file is rewritten from the dictionary
SaveAgvs(D, A) == [D EXCEPT !.agvs = A]
SaveTasks(D, T) == [D EXCEPT !.tasks = T]

\* whether the movement loop, then the battery loop, call update_agv for agv
MovementUpdates(agv) == agv.status \in {"MOVING", "TRANSPORTING"}
BatteryUpdates(agv) == agv.status \in {"CHARGING", "IDLE"}

\* the files after a tick from (A, T) to (A1, T1): the last update_agv of the
\* tick writes the AGVs as the tick leaves them, the last update_task the tasks
TickSaves(D, A, T, A1, T1) ==
    LET D1 == IF \E a \in AGVIds : MovementUpdates(A[a]) \/ BatteryUpdates(A1[a])
              THEN SaveAgvs(D, A1) ELSE D
    IN IF \E a \in AGVIds : Arrives(A[a], T) THEN SaveTasks(D1, T1) ELSE D1

\* one pass of the loop of run_simulation: movement phase, then battery phase
TickBody ==
    \E rnd \in [AGVIds -> Draws] :
        /\ agvs' = simulate_battery_changes(simulate_agv_movement(agvs, tasks, rnd), rnd)
        /\ tasks' = CompleteArrived(agvs, tasks)
        /\ disk' = TickSaves(disk, agvs, tasks, agvs', tasks')
        /\ last' = Result("tick", "returned", None, <<>>, <<>>)
        /\ UNCHANGED <<advisor, pc, probe>>

Tick ==
    /\ ticks < MaxTicks
    /\ TickBody
    /\ ticks' = ticks + 1
    /\ UNCHANGED calls

(***************************************************************************)
(* The advisor (adapters/openai_adapter.py).                               *)
(***************************************************************************)
\* index of the first element of seq (task ids) whose origin is nearest
ClosestIndex(agv, seq, T) ==
    CHOOSE i \in 1..Len(seq) :
        /\ \A j \in 1..Len(seq) :
              distance2(agv.position, T[seq[i]].origin)
                 <= distance2(agv.position, T[seq[j]].origin)
        /\ \A j \in 1..(i - 1) :
              distance2(agv.position, T[seq[j]].origin)
                 > distance2(agv.position, T[seq[i]].origin)

RemoveAt(seq, i) == SubSeq(seq, 1, i - 1) \o SubSeq(seq, i + 1, Len(seq))

\* variant: the chosen task stays in the pool
RECURSIVE GreedyAssignNoRemove(_, _, _, _)
GreedyAssignNoRemove(agv_ids, available_tasks, A, T) ==
    IF agv_ids = <<>> THEN <<>>
    ELSE LET agv == A[Head(agv_ids)]
         IN IF available_tasks # <<>> /\ agv.battery_level > GreedyBattery
            THEN LET i == ClosestIndex(agv, available_tasks, T)
                 IN <<[agv_id |-> Head(agv_ids), task_id |-> available_tasks[i]]>>
                    \o GreedyAssignNoRemove(Tail(agv_ids), available_tasks, A, T)
            ELSE GreedyAssignNoRemove(Tail(agv_ids), available_tasks, A, T)

\* the except branch of recommend_task_assignment: nearest task first
RECURSIVE GreedyAssign(_, _, _, _)
GreedyAssign(agv_ids, available_tasks, A, T) ==
    IF agv_ids = <<>> THEN <<>>
    ELSE LET agv == A[Head(agv_ids)]
         IN IF available_tasks # <<>> /\ agv.battery_level > GreedyBattery
            THEN LET i == ClosestIndex(agv, available_tasks, T)
                 IN <<[agv_id |-> Head(agv_ids), task_id |-> available_tasks[i]]>>
                    \o GreedyAssign(Tail(agv_ids), RemoveAt(available_tasks, i), A, T)
            ELSE GreedyAssign(Tail(agv_ids), available_tasks, A, T)

\* the keyword arguments Route.__init__ requires and accepts, and the ones
\* both Route(...) calls of the route optimizer pass
RouteRequired == {"route_id", "agv_id", "task_id", "waypoints", "total_distance",
                  "estimated_time", "fuel_consumption"}
RouteOptional == {"created_at"}
RouteCallArgs == {"route_id", "agv_id", "task_id", "waypoints", "estimated_time",
                  "total_distance", "created_at"}

\* the dataclass constructor raises TypeError on a missing or unknown field
Route_init_raises(args) ==
    \/ ~(RouteRequired \subseteq args)
    \/ ~(args \subseteq (RouteRequired \cup RouteOptional))

create_fallback_route_raises == Route_init_raises(RouteCallArgs)

\* optimize_route: the try block ends in Route(...) when the language model
\* answers well (llm_ok) and in an exception otherwise; the except branch
\* returns the fallback route, built outside any try
optimize_route_raises ==
    \A llm_ok \in BOOLEAN :
        IF llm_ok /\ ~Route_init_raises(RouteCallArgs) THEN FALSE
        ELSE create_fallback_route_raises

(***************************************************************************)
(* What the language model can answer to recommend_task_assignment: the    *)
(* call fails (the except branch computes the greedy map), the answer is   *)
(* JSON but no object, or it is an object from AGV ids to task ids, read   *)
(* in its own order, its keys distinct, with at most one entry per AGV of  *)
(* the fleet.  An id that resolves to no AGV is dropped whatever task it is *)
(* paired with, so it is paired with one task only.                        *)
(***************************************************************************)
RecAGVs == AGVIds \cup {UnknownAGV}
RecTasks == TaskIds
RecPairs ==
    [agv_id : AGVIds, task_id : RecTasks]
        \cup {[agv_id |-> UnknownAGV, task_id |-> "TSK-002"]}

RecMaps ==
    {r \in UNION {[1..n -> RecPairs] : n \in 0..Len(AGVOrder)} :
        \A i, j \in 1..Len(r) : i # j => r[i].agv_id # r[j].agv_id}

AdvisorReplies ==
    {[kind |-> "fails", recs |-> <<>>], [kind |-> "malformed", recs |-> <<>>]}
       \cup {[kind |-> "answers", recs |-> r] : r \in RecMaps}

\* without an advisor there is nothing to reply
Replies(adv) ==
    IF adv = "absent" THEN {[kind |-> "none", recs |-> <<>>]} ELSE AdvisorReplies

(***************************************************************************)
(* The assignment engine (domain/services.py, FleetOrchestrationService).  *)
(***************************************************************************)
\* variant: the test without can_reach
PairValidNoReach(A, T, pair) ==
    /\ get_agv_by_id(A, pair.agv_id)
    /\ get_task_by_id(T, pair.task_id)

\* the test of the loop of assign_optimal_tasks
PairValid(A, T, pair) ==
    /\ get_agv_by_id(A, pair.agv_id)
    /\ get_task_by_id(T, pair.task_id)
    /\ can_reach(A[pair.agv_id], T[pair.task_id].destination)

\* variant: the AGV gets the task and keeps its status
CommitAGVKeepStatus(agv, task_id) == [agv EXCEPT !.current_task_id = task_id]

\* the assignments to the AGV made by the loop body
CommitAGV(agv, task_id) ==
    [agv EXCEPT !.current_task_id = task_id, !.status = "MOVING"]

\* variant: the task is started without recording its AGV
CommitTaskUnassigned(task, agv_id) == [task EXCEPT !.started_at = TRUE]

\* variant: the task gets its AGV but no started_at
CommitTaskNotStarted(task, agv_id) == [task EXCEPT !.assigned_agv_id = agv_id]

\* the assignments to the task made by the loop body
CommitTask(task, agv_id) ==
    [task EXCEPT !.assigned_agv_id = agv_id, !.started_at = TRUE]

\* what the loop did with one pair; available records whether the AGV of the
\* pair satisfied is_available when the loop reached it
LogEntry(A, pair, decision) ==
    [agv_id |-> pair.agv_id, task_id |-> pair.task_id, decision |-> decision,
     available |-> get_agv_by_id(A, pair.agv_id) /\ is_available(A[pair.agv_id])]

\* the loop of assign_optimal_tasks over recommendations.items(), from pair
\* i; the log keeps what the loop did with each pair it reached
\* D is what the files hold: update_task and update_agv, which write them,
\* come after optimize_route in the loop body
RECURSIVE AssignLoop(_, _, _, _, _, _, _)
AssignLoop(recs, i, A, T, D, log, assignments) ==
    IF i > Len(recs)
    THEN [agvs |-> A, tasks |-> T, disk |-> D, outcome |-> "returned", log |-> log,
          assignments |-> assignments]
    ELSE IF ~PairValid(A, T, recs[i])
    THEN AssignLoop(recs, i + 1, A, T, D,
                    Append(log, LogEntry(A, recs[i], "dropped")), assignments)
    ELSE LET a == recs[i].agv_id
             t == recs[i].task_id
             A1 == [A EXCEPT ![a] = CommitAGV(A[a], t)]
             T1 == [T EXCEPT ![t] = CommitTask(T[t], a)]
             log1 == Append(log, LogEntry(A, recs[i], "committed"))
         IN IF optimize_route_raises
            THEN [agvs |-> A1, tasks |-> T1, disk |-> D, outcome |-> "raised",
                  log |-> log1, assignments |-> assignments]
            ELSE AssignLoop(recs, i + 1, A1, T1, SaveAgvs(SaveTasks(D, T1), A1), log1,
                            Append(assignments, [agv_id |-> a, task_id |-> t]))

\* what recommend_task_assignment returns for a reply that is no malformed one
Recommendations(A, T, reply) ==
    IF reply.kind = "answers" THEN reply.recs
    ELSE GreedyAssign(get_available_agvs(A), get_pending_tasks(T), A, T)

\* variant: the advisor is asked before the lists are looked at
assign_optimal_tasksAdvisorFirst(A, T, D, adv, reply) ==
    LET unchanged(outcome) ==
            [agvs |-> A, tasks |-> T, disk |-> D, outcome |-> outcome, log |-> <<>>,
             assignments |-> <<>>]
    IN IF adv = "absent" THEN unchanged("raised")
       ELSE IF reply.kind = "malformed" THEN unchanged("raised")
       ELSE IF get_available_agvs(A) = <<>> \/ get_pending_tasks(T) = <<>>
       THEN unchanged("returned")
       ELSE AssignLoop(Recommendations(A, T, reply), 1, A, T, D, <<>>, <<>>)

assign_optimal_tasks(A, T, D, adv, reply) ==
    LET unchanged(outcome) ==
            [agvs |-> A, tasks |-> T, disk |-> D, outcome |-> outcome, log |-> <<>>,
             assignments |-> <<>>]
    IN IF get_available_agvs(A) = <<>> \/ get_pending_tasks(T) = <<>>
       THEN unchanged("returned")
       ELSE IF adv = "absent" THEN unchanged("raised")
       ELSE IF reply.kind = "malformed" THEN unchanged("raised")
       ELSE AssignLoop(Recommendations(A, T, reply), 1, A, T, D, <<>>, <<>>)

\* POST /api/fleet/assign-tasks
AssignBody ==
    /\ \E reply \in Replies(advisor) :
          LET r == assign_optimal_tasks(agvs, tasks, disk, advisor, reply)
          IN /\ agvs' = r.agvs
             /\ tasks' = r.tasks
             /\ disk' = r.disk
             /\ last' = Result("assign", r.outcome, None, r.log, r.assignments)
    /\ UNCHANGED <<advisor, pc, probe>>

AssignOptimalTasks ==
    /\ calls < MaxCalls
    /\ AssignBody
    /\ calls' = calls + 1
    /\ UNCHANGED ticks

\* create_emergency_task: the task gets the id of the current second; when
\* create_task accepts it, assign_optimal_tasks runs inside the call
create_emergency_task(A, T, D, adv, origin, destination, reply) ==
    IF T[UrgentId].present
    THEN [agvs |-> A, tasks |-> T, disk |-> D, outcome |-> "error", log |-> <<>>,
          assignments |-> <<>>]
    ELSE LET T1 == [T EXCEPT ![UrgentId] =
                       [present |-> TRUE, origin |-> origin,
                        destination |-> destination, priority |-> "URGENT",
                        assigned_agv_id |-> None, started_at |-> FALSE,
                        completed_at |-> FALSE]]
         IN assign_optimal_tasks(A, T1, SaveTasks(D, T1), adv, reply)

EmergencyRoutes == {<<Pos(0, 0), Pos(7, 0)>>}

\* POST /api/tasks/emergency
CreateBody ==
    /\ \E route \in EmergencyRoutes, reply \in Replies(advisor) :
          LET r == create_emergency_task(agvs, tasks, disk, advisor, route[1],
                                         route[2], reply)
          IN /\ agvs' = r.agvs
             /\ tasks' = r.tasks
             /\ disk' = r.disk
             /\ last' = Result("create", r.outcome, None, r.log, r.assignments)
    /\ UNCHANGED <<advisor, pc, probe>>

CreateEmergencyTask ==
    /\ calls < MaxCalls
    /\ CreateBody
    /\ calls' = calls + 1
    /\ UNCHANGED ticks

\* create_task: an id already in the dictionary is refused; otherwise the
\* task is put into the dictionary and tasks.csv is rewritten, and an
\* exception of the write (saved = FALSE) is swallowed into False
create_task(T, D, task_id, task, saved) ==
    IF T[task_id].present
    THEN [tasks |-> T, disk |-> D, accepted |-> FALSE]
    ELSE LET T1 == [T EXCEPT ![task_id] = task]
         IN IF saved
            THEN [tasks |-> T1, disk |-> SaveTasks(D, T1), accepted |-> TRUE]
            ELSE [tasks |-> T1, disk |-> D, accepted |-> FALSE]

\* POST /api/tasks/emergency with the write of tasks.csv succeeding or not
IntakeBody ==
    /\ \E route \in EmergencyRoutes, reply \in Replies(advisor), saved \in BOOLEAN :
          LET c == create_task(tasks, disk, UrgentId,
                               [present |-> TRUE, origin |-> route[1],
                                destination |-> route[2], priority |-> "URGENT",
                                assigned_agv_id |-> None, started_at |-> FALSE,
                                completed_at |-> FALSE],
                               saved)
              r == IF c.accepted
                   THEN assign_optimal_tasks(agvs, c.tasks, c.disk, advisor, reply)
                   ELSE [agvs |-> agvs, tasks |-> c.tasks, disk |-> c.disk,
                         outcome |-> "error", log |-> <<>>, assignments |-> <<>>]
          IN /\ agvs' = r.agvs
             /\ tasks' = r.tasks
             /\ disk' = r.disk
             /\ last' = Result("create", r.outcome, None, r.log, r.assignments)
    /\ UNCHANGED <<advisor, pc, probe>>

IntakeCreate ==
    /\ calls < LiveCalls
    /\ IntakeBody
    /\ calls' = calls + 1
    /\ UNCHANGED ticks

(***************************************************************************)
(* Individual control (domain/services.py, AGVControlService).             *)
(***************************************************************************)
send_agv_to_position(A, agv_id, position) ==
    IF ~get_agv_by_id(A, agv_id)
    THEN [agvs |-> A, result |-> Result("move", "error", agv_id, <<>>, <<>>)]
    ELSE IF ~is_available(A[agv_id])
    THEN [agvs |-> A, result |-> Result("move", "error", agv_id, <<>>, <<>>)]
    ELSE IF ~can_reach(A[agv_id], position)
    THEN [agvs |-> A, result |-> Result("move", "error", agv_id, <<>>, <<>>)]
    ELSE [agvs |-> [A EXCEPT ![agv_id].status = "MOVING"],
          result |-> Result("move", "success", agv_id, <<>>, <<>>)]

MovePoints == {Pos(100, 0), Pos(5000, 0)}

\* POST /api/agv/move
MoveBody ==
    /\ \E agv_id \in RecAGVs, position \in MovePoints :
          LET r == send_agv_to_position(agvs, agv_id, position)
          IN /\ agvs' = r.agvs
             /\ disk' = IF r.result.outcome = "success"
                        THEN SaveAgvs(disk, r.agvs) ELSE disk
             /\ last' = r.result
    /\ UNCHANGED <<advisor, tasks, pc, probe>>

SendAgvToPosition ==
    /\ calls < MaxCalls
    /\ MoveBody
    /\ calls' = calls + 1
    /\ UNCHANGED ticks

\* variant: an id that does not resolve stops the first AGV of the roster
emergency_stop_agvFirst(A, agv_id) ==
    LET a == IF get_agv_by_id(A, agv_id) THEN agv_id ELSE AGVOrder[1]
    IN [agvs |-> [A EXCEPT ![a].status = "IDLE", ![a].current_task_id = None],
        result |-> Result("stop", "success", agv_id, <<>>, <<>>)]

emergency_stop_agv(A, agv_id) ==
    IF ~get_agv_by_id(A, agv_id)
    THEN [agvs |-> A, result |-> Result("stop", "error", agv_id, <<>>, <<>>)]
    ELSE [agvs |-> [A EXCEPT ![agv_id].status = "IDLE",
                             ![agv_id].current_task_id = None],
          result |-> [Result("stop", "success", agv_id, <<>>, <<>>)
                         EXCEPT !.released = A[agv_id].current_task_id]]

\* POST /api/agv/{agv_id}/emergency-stop
StopBody ==
    /\ \E agv_id \in RecAGVs :
          LET r == emergency_stop_agv(agvs, agv_id)
          IN /\ agvs' = r.agvs
             /\ disk' = IF r.result.outcome = "success"
                        THEN SaveAgvs(disk, r.agvs) ELSE disk
             /\ last' = r.result
    /\ UNCHANGED <<advisor, tasks, pc, probe>>

EmergencyStopAgv ==
    /\ calls < MaxCalls
    /\ StopBody
    /\ calls' = calls + 1
    /\ UNCHANGED ticks

(***************************************************************************)
(* Start-up (main.py, startup_event; data_adapter.py, _load_data).  The    *)
(* rosters follow the sample data: AGV-001 idle at the origin, AGV-002     *)
(* under way with TSK-001, or charging or idle at the destination of       *)
(* TSK-001 after completing it; TSK-002 is pending, its destination 100   *)
(* or 5000 units from its origin.                                          *)
(***************************************************************************)
AGV(position, battery_level, status, current_task_id) ==
    [position |-> position, battery_level |-> battery_level, status |-> status,
     current_task_id |-> current_task_id]

Task(origin, destination, priority, assigned_agv_id, started_at, completed_at) ==
    [present |-> TRUE, origin |-> origin, destination |-> destination,
     priority |-> priority, assigned_agv_id |-> assigned_agv_id,
     started_at |-> started_at, completed_at |-> completed_at]

NoTask ==
    [present |-> FALSE, origin |-> Pos(0, 0), destination |-> Pos(0, 0),
     priority |-> "LOW", assigned_agv_id |-> None, started_at |-> FALSE,
     completed_at |-> FALSE]

\* no pure function has been applied
NoProbe == [fn |-> "none"]

\* run_simulation before its first tick, suspended in asyncio.sleep
Asleep == [k |-> 0]

Roster(agv1, agv2) == [a \in AGVIds |-> IF a = "AGV-001" THEN agv1 ELSE agv2]

TaskPool(tsk1_completed, tsk2_destination) ==
    [t \in TaskIds |->
        CASE t = "TSK-001" -> Task(Pos(30, 0), Pos(44, 0), "HIGH", "AGV-002", TRUE,
                                   tsk1_completed)
          [] t = "TSK-002" -> Task(Pos(0, 0), tsk2_destination, "MEDIUM", None, FALSE,
                                   FALSE)
          [] OTHER -> NoTask]

Fleets ==
    {[agvs |-> Roster(AGV(Pos(0, 0), 10000, "IDLE", None),
                      AGV(Pos(40, 0), 9200, "MOVING", "TSK-001")),
      tasks |-> TaskPool(FALSE, Pos(100, 0))],
     [agvs |-> Roster(AGV(Pos(0, 0), 2500, "IDLE", None),
                      AGV(Pos(30, 0), 20, "TRANSPORTING", "TSK-001")),
      tasks |-> TaskPool(FALSE, Pos(5000, 0))],
     [agvs |-> Roster(AGV(Pos(0, 0), 10000, "IDLE", None),
                      AGV(Pos(44, 0), 9800, "CHARGING", None)),
      tasks |-> TaskPool(TRUE, Pos(100, 0))],
     [agvs |-> Roster(AGV(Pos(0, 0), 10000, "IDLE", None),
                      AGV(Pos(44, 0), 3, "IDLE", None)),
      tasks |-> TaskPool(TRUE, Pos(100, 0))]}

Init ==
    /\ advisor \in {"absent", "present"}
    /\ \E fleet \in Fleets : agvs = fleet.agvs /\ tasks = fleet.tasks
    /\ disk = [agvs |-> agvs, tasks |-> tasks]
    /\ last = Result("start", "returned", None, <<>>, <<>>)
    /\ ticks = 0
    /\ calls = 0
    /\ pc = Asleep
    /\ probe = NoProbe

Next ==
    \/ Tick
    \/ AssignOptimalTasks
    \/ CreateEmergencyTask
    \/ SendAgvToPosition
    \/ EmergencyStopAgv

Spec == Init /\ [][Next]_vars

(***************************************************************************)
(* The same operations from rosters with nothing to assign: AGV-002 is in  *)
(* maintenance, and either no task is pending (both tasks of the sample    *)
(* data are completed), or AGV-001 is charging, or both.                   *)
(***************************************************************************)
CompletedPool ==
    [t \in TaskIds |->
        CASE t = "TSK-001" -> Task(Pos(30, 0), Pos(44, 0), "HIGH", "AGV-002", TRUE, TRUE)
          [] t = "TSK-002" -> Task(Pos(0, 0), Pos(100, 0), "MEDIUM", "AGV-001", TRUE,
                                   TRUE)
          [] OTHER -> NoTask]

QuietFleets ==
    {[agvs |-> Roster(AGV(Pos(100, 0), 9000, "IDLE", None),
                      AGV(Pos(44, 0), 9800, "MAINTENANCE", None)),
      tasks |-> CompletedPool],
     [agvs |-> Roster(AGV(Pos(0, 0), 1500, "CHARGING", None),
                      AGV(Pos(44, 0), 9800, "MAINTENANCE", None)),
      tasks |-> TaskPool(TRUE, Pos(100, 0))],
     [agvs |-> Roster(AGV(Pos(100, 0), 1500, "CHARGING", None),
                      AGV(Pos(44, 0), 9800, "MAINTENANCE", None)),
      tasks |-> CompletedPool]}

QuietInit ==
    /\ advisor \in {"absent", "present"}
    /\ \E fleet \in QuietFleets : agvs = fleet.agvs /\ tasks = fleet.tasks
    /\ disk = [agvs |-> agvs, tasks |-> tasks]
    /\ last = Result("start", "returned", None, <<>>, <<>>)
    /\ ticks = 0
    /\ calls = 0
    /\ pc = Asleep
    /\ probe = NoProbe

QuietSpec == QuietInit /\ [][Next]_vars

(***************************************************************************)
(* The engine left to run: run_simulation loops for as long as the process *)
(* lives, so a tick that can be taken is eventually taken.  No emergency   *)
(* stop is requested and no task is deleted; assignment, emergency tasks   *)
(* and manual moves still arrive, LiveCalls of them within LiveTicks ticks.*)
(***************************************************************************)
LiveTick ==
    /\ ticks < LiveTicks
    /\ ticks' = ticks + 1
    /\ UNCHANGED calls
    /\ TickBody

LiveAssign ==
    /\ calls < LiveCalls
    /\ AssignBody
    /\ calls' = calls + 1
    /\ UNCHANGED ticks

LiveCreate ==
    /\ calls < LiveCalls
    /\ CreateBody
    /\ calls' = calls + 1
    /\ UNCHANGED ticks

LiveMove ==
    /\ calls < LiveCalls
    /\ MoveBody
    /\ calls' = calls + 1
    /\ UNCHANGED ticks

LiveNext ==
    \/ LiveTick
    \/ LiveAssign
    \/ LiveCreate
    \/ LiveMove

LiveStop ==
    /\ calls < LiveCalls
    /\ StopBody
    /\ calls' = calls + 1
    /\ UNCHANGED ticks

\* the engine left to run with emergency stops among the requests
StopNext ==
    \/ LiveTick
    \/ LiveAssign
    \/ LiveCreate
    \/ LiveMove
    \/ LiveStop

\* the first roster of Fleets, with an advisor configured
LiveInit ==
    /\ advisor = "present"
    /\ agvs = Roster(AGV(Pos(0, 0), 10000, "IDLE", None),
                     AGV(Pos(40, 0), 9200, "MOVING", "TSK-001"))
    /\ tasks = TaskPool(FALSE, Pos(100, 0))
    /\ disk = [agvs |-> agvs, tasks |-> tasks]
    /\ last = Result("start", "returned", None, <<>>, <<>>)
    /\ ticks = 0
    /\ calls = 0
    /\ pc = Asleep
    /\ probe = NoProbe

\* LiveTick is the only action that changes ticks, and it can be taken
\* whenever ticks < LiveTicks: a step is a tick exactly when it is TickTaken
TickTaken == ticks < LiveTicks /\ ticks' = ticks + 1

LiveSpec == LiveInit /\ [][LiveNext]_vars /\ WF_ticks(TickTaken)

StopSpec == LiveInit /\ [][StopNext]_vars /\ WF_ticks(TickTaken)

(***************************************************************************)
(* The engine left to run with no request arriving: tick after tick for    *)
(* as long as the process lives.  The ticks are not counted here, the      *)
(* battery levels bound the states.  AGV-001 starts charging or idle with  *)
(* little battery, AGV-002 is in maintenance.                              *)
(***************************************************************************)
BatteryRosters ==
    {Roster(agv1, AGV(Pos(44, 0), 9800, "MAINTENANCE", None)) :
        agv1 \in {AGV(Pos(0, 0), 1500, "CHARGING", None),
                  AGV(Pos(0, 0), 9800, "CHARGING", None),
                  AGV(Pos(0, 0), 3, "IDLE", None)}}

BatteryInit ==
    /\ advisor = "absent"
    /\ agvs \in BatteryRosters
    /\ tasks = TaskPool(TRUE, Pos(100, 0))
    /\ disk = [agvs |-> agvs, tasks |-> tasks]
    /\ last = Result("start", "returned", None, <<>>, <<>>)
    /\ ticks = 0
    /\ calls = 0
    /\ pc = Asleep
    /\ probe = NoProbe

BatteryTick ==
    /\ TickBody
    /\ UNCHANGED <<ticks, calls>>

\* a tick in which random.random() < 0.3 holds for idle AGV a
TriggerFires(a) ==
    /\ agvs[a].status = "IDLE"
    /\ BatteryTick
    /\ agvs'[a].status = "CHARGING"

\* the loop of run_simulation never ends, and the trigger, drawn anew in
\* every tick that consults it, does not fail forever
BatterySpec ==
    /\ BatteryInit
    /\ [][BatteryTick]_vars
    /\ WF_vars(BatteryTick)
    /\ \A a \in AGVIds : SF_vars(TriggerFires(a))

\* the engine left to run with manual moves requested, MaxCalls of them
ManualNext ==
    \/ BatteryTick
    \/ SendAgvToPosition

ManualSpec == BatteryInit /\ [][ManualNext]_vars /\ WF_vars(BatteryTick)

\* task intake: emergency tasks created, LiveCalls of them, between ticks
IntakeNext ==
    \/ LiveTick
    \/ IntakeCreate

IntakeSpec == Init /\ [][IntakeNext]_vars

(***************************************************************************)
(* The engine with the recommendations computed locally: the advisor is    *)
(* configured and every call to it fails, so recommend_task_assignment     *)
(* answers with the greedy map.  Ticks, assignment calls, manual moves and *)
(* emergency stops, LiveCalls requests within LiveTicks ticks.             *)
(***************************************************************************)
GreedyAssignBody ==
    /\ LET r == assign_optimal_tasks(agvs, tasks, disk, advisor,
                                     [kind |-> "fails", recs |-> <<>>])
       IN /\ agvs' = r.agvs
          /\ tasks' = r.tasks
          /\ disk' = r.disk
          /\ last' = Result("assign", r.outcome, None, r.log, r.assignments)
    /\ UNCHANGED <<advisor, pc, probe>>

GreedyAssignCall ==
    /\ calls < LiveCalls
    /\ GreedyAssignBody
    /\ calls' = calls + 1
    /\ UNCHANGED ticks

GreedyInit ==
    /\ advisor = "present"
    /\ \E fleet \in Fleets : agvs = fleet.agvs /\ tasks = fleet.tasks
    /\ disk = [agvs |-> agvs, tasks |-> tasks]
    /\ last = Result("start", "returned", None, <<>>, <<>>)
    /\ ticks = 0
    /\ calls = 0
    /\ pc = Asleep
    /\ probe = NoProbe

GreedyNext ==
    \/ LiveTick
    \/ GreedyAssignCall
    \/ LiveMove
    \/ LiveStop

GreedySpec == GreedyInit /\ [][GreedyNext]_vars

(***************************************************************************)
(* A long trip: AGV-001 is idle with battery 30.4, the pending task's      *)
(* destination is 2040 units away, which is as far as can_reach allows     *)
(* with that battery; AGV-002 is in maintenance.  The greedy heuristic     *)
(* recommends the pair, and the engine runs for TripTicks ticks.           *)
(***************************************************************************)
TripTicks == 110

TripInit ==
    /\ advisor = "present"
    /\ agvs = Roster(AGV(Pos(0, 0), 3040, "IDLE", None),
                     AGV(Pos(44, 0), 9800, "MAINTENANCE", None))
    /\ tasks = TaskPool(TRUE, Pos(2040, 0))
    /\ disk = [agvs |-> agvs, tasks |-> tasks]
    /\ last = Result("start", "returned", None, <<>>, <<>>)
    /\ ticks = 0
    /\ calls = 0
    /\ pc = Asleep
    /\ probe = NoProbe

TripTick ==
    /\ ticks < TripTicks
    /\ TickBody
    /\ ticks' = ticks + 1
    /\ UNCHANGED calls

TripNext ==
    \/ TripTick
    \/ GreedyAssignCall

TripSpec == TripInit /\ [][TripNext]_vars

TypeOK ==
    /\ advisor \in {"absent", "present"}
    /\ \A a \in AGVIds :
          /\ agvs[a].status \in Statuses
          /\ agvs[a].current_task_id \in TaskIds \cup {None}
          /\ agvs[a].battery_level \in Int
    /\ \A t \in TaskIds :
          /\ tasks[t].assigned_agv_id \in AGVIds \cup {None}
          /\ tasks[t].started_at \in BOOLEAN
          /\ tasks[t].completed_at \in BOOLEAN
    /\ ticks \in 0..Max(MaxTicks, LiveTicks)
    /\ calls \in 0..Max(MaxCalls, LiveCalls)

(***************************************************************************)
(* The tick iteration by iteration.  run_simulation and the request        *)
(* handlers are coroutines of one event loop: control passes from one to   *)
(* another only where a coroutine awaits, and run_simulation awaits only   *)
(* asyncio.sleep, between two ticks; the handlers call the services        *)
(* without awaiting.  Inside a tick pc.k counts the iterations of the two  *)
(* loops, pc.start and pc.rnd keep the fleet and the draws the tick began  *)
(* with, pc.clean whether the files agreed with memory then.  _save_agvs   *)
(* and _save_tasks may fail; update_agv and update_task then return False. *)
(***************************************************************************)
\* ticks and requests in one run
StepOps == 2

NumAGVs == Len(AGVOrder)

\* variant: the loops of the tick yield to the event loop between iterations
AtAwaitInsideTick(p) == TRUE

\* whether run_simulation is suspended at its await
AtAwait(p) == p.k = 0

\* asyncio.sleep returns: simulate_agv_movement is entered
Wake ==
    /\ pc.k = 0
    /\ ticks + calls < StepOps
    /\ \E rnd \in [AGVIds -> Draws] :
          pc' = [k |-> 1, start |-> [agvs |-> agvs, tasks |-> tasks], rnd |-> rnd,
                 clean |-> (disk.agvs = agvs /\ disk.tasks = tasks)]
    /\ UNCHANGED <<advisor, agvs, tasks, last, ticks, calls, disk, probe>>

\* what last keeps of one iteration: whether its update_agv was called and
\* what it returned
StepResult(agv_id, called, ok) ==
    Result("step", IF ~called THEN "skipped" ELSE IF ok THEN "saved" ELSE "unsaved",
           agv_id, <<>>, <<>>)

\* one iteration of the loop of simulate_agv_movement
MoveStep ==
    /\ pc.k \in 1..NumAGVs
    /\ LET a == AGVOrder[pc.k]
           arrives == Arrives(agvs[a], tasks)
           A1 == [agvs EXCEPT ![a] = MoveOne(agvs[a], tasks, pc.rnd[a])]
           T1 == IF arrives
                 THEN [tasks EXCEPT ![agvs[a].current_task_id].completed_at = TRUE]
                 ELSE tasks
       IN /\ agvs' = A1
          /\ tasks' = T1
          /\ \E task_saved, agv_saved \in BOOLEAN :
                LET D1 == IF arrives /\ task_saved THEN SaveTasks(disk, T1) ELSE disk
                IN /\ disk' = IF MovementUpdates(agvs[a]) /\ agv_saved
                              THEN SaveAgvs(D1, A1) ELSE D1
                   /\ last' = StepResult(a, MovementUpdates(agvs[a]),
                                         agv_saved /\ (arrives => task_saved))
    /\ pc' = [pc EXCEPT !.k = pc.k + 1]
    /\ UNCHANGED <<advisor, ticks, calls, probe>>

\* one iteration of the loop of simulate_battery_changes; after the last
\* one run_simulation awaits asyncio.sleep again
BatteryStep ==
    /\ pc.k \in (NumAGVs + 1)..(2 * NumAGVs)
    /\ LET a == AGVOrder[pc.k - NumAGVs]
           A1 == [agvs EXCEPT ![a] = BatteryOne(agvs[a], pc.rnd[a])]
       IN /\ agvs' = A1
          /\ \E agv_saved \in BOOLEAN :
                /\ disk' = IF BatteryUpdates(agvs[a]) /\ agv_saved
                           THEN SaveAgvs(disk, A1) ELSE disk
                /\ last' = StepResult(a, BatteryUpdates(agvs[a]), agv_saved)
    /\ IF pc.k = 2 * NumAGVs
       THEN pc' = [pc EXCEPT !.k = 0] /\ ticks' = ticks + 1
       ELSE pc' = [pc EXCEPT !.k = pc.k + 1] /\ UNCHANGED ticks
    /\ UNCHANGED <<advisor, tasks, calls, probe>>

StepAssign ==
    /\ AtAwait(pc)
    /\ ticks + calls < StepOps
    /\ AssignBody
    /\ calls' = calls + 1
    /\ UNCHANGED ticks

StepCreate ==
    /\ AtAwait(pc)
    /\ ticks + calls < StepOps
    /\ CreateBody
    /\ calls' = calls + 1
    /\ UNCHANGED ticks

StepMove ==
    /\ AtAwait(pc)
    /\ ticks + calls < StepOps
    /\ MoveBody
    /\ calls' = calls + 1
    /\ UNCHANGED ticks

StepStop ==
    /\ AtAwait(pc)
    /\ ticks + calls < StepOps
    /\ StopBody
    /\ calls' = calls + 1
    /\ UNCHANGED ticks

\* the rosters of Fleets in which no AGV is short of battery
StepFleets ==
    {fleet \in Fleets : \A a \in AGVIds : fleet.agvs[a].battery_level >= LowBattery}

StepInit ==
    /\ advisor = "present"
    /\ \E fleet \in StepFleets : agvs = fleet.agvs /\ tasks = fleet.tasks
    /\ disk = [agvs |-> agvs, tasks |-> tasks]
    /\ last = Result("start", "returned", None, <<>>, <<>>)
    /\ ticks = 0
    /\ calls = 0
    /\ pc = Asleep
    /\ probe = NoProbe

StepNext ==
    \/ Wake
    \/ MoveStep
    \/ BatteryStep
    \/ StepAssign
    \/ StepCreate
    \/ StepMove
    \/ StepStop

\* run_simulation after task.cancel(): the loop has been left
Cancelled(p) == [p EXCEPT !.k = 0 - 1]

\* variant: the task is torn down wherever it stands
CancelPointAnywhere(p) == p.k >= 0

\* where task.cancel() takes effect: CancelledError is raised inside the
\* coroutine at the await it is suspended in
CancelPoint(p) == AtAwait(p)

\* shutdown_event: simulation_task.cancel(), then the task is awaited; the
\* CancelledError raised in asyncio.sleep is caught by the loop, which breaks
Cancel ==
    /\ CancelPoint(pc)
    /\ pc' = Cancelled(pc)
    /\ UNCHANGED <<advisor, agvs, tasks, last, ticks, calls, disk, probe>>

CancelNext ==
    \/ Wake
    \/ MoveStep
    \/ BatteryStep
    \/ StepAssign
    \/ StepCreate
    \/ StepMove
    \/ StepStop
    \/ Cancel

CancelSpec == StepInit /\ [][CancelNext]_vars

StepSpec == StepInit /\ [][StepNext]_vars

(***************************************************************************)
(* Fleet metrics (domain/entities.py, FleetMetrics; domain/services.py,    *)
(* get_fleet_overview).  The metrics are floats in the code; here they are *)
(* exact fractions num / den with den > 0, and average_battery is in       *)
(* percent.                                                                *)
(***************************************************************************)
Frac(n, d) == [num |-> n, den |-> d]

\* the fraction in lowest terms, so that equal values are equal records
RECURSIVE Gcd(_, _)
Gcd(m, n) == IF n = 0 THEN m ELSE Gcd(n, m % n)

Lowest(p) ==
    IF p.num = 0 THEN Frac(0, 1)
    ELSE Frac(p.num \div Gcd(p.num, p.den), p.den \div Gcd(p.num, p.den))

FracAdd(p, q) == Lowest(Frac(p.num * q.den + q.num * p.den, p.den * q.den))

FracMul(p, q) == Lowest(Frac(p.num * q.num, p.den * q.den))

FracEq(p, q) == Lowest(p) = Lowest(q)

FracLess(p, q) == p.num * q.den < q.num * p.den

\* variant: the weighted sum without the final factor 100
calculate_efficiencyFraction(m) ==
    IF m.total_agvs = 0 THEN Frac(0, 1)
    ELSE Lowest(FracAdd(FracMul(Frac(m.active_agvs, m.total_agvs), Frac(7, 10)),
                        FracMul(FracMul(m.average_battery, Frac(1, 100)),
                                Frac(3, 10))))

\* (active_ratio * 0.7 + battery_ratio * 0.3) * 100, and 0.0 for no AGVs
calculate_efficiency(m) ==
    IF m.total_agvs = 0 THEN Frac(0, 1)
    ELSE Lowest(FracMul(FracAdd(FracMul(Frac(m.active_agvs, m.total_agvs),
                                        Frac(7, 10)),
                                FracMul(FracMul(m.average_battery, Frac(1, 100)),
                                        Frac(3, 10))),
                        Frac(100, 1)))

RECURSIVE SumBattery(_, _)
SumBattery(A, ids) ==
    IF ids = <<>> THEN 0 ELSE A[Head(ids)].battery_level + SumBattery(A, Tail(ids))

CountAGVs(A, statuses) == Cardinality({a \in AGVIds : A[a].status \in statuses})

\* the FleetMetrics of get_fleet_overview; battery_level is in hundredths of
\* a percent, so the average in percent is the sum over 100 * total_agvs
FleetMetrics(A, T) ==
    LET m == [total_agvs |-> Len(AGVOrder),
              active_agvs |-> CountAGVs(A, {"MOVING", "TRANSPORTING"}),
              idle_agvs |-> CountAGVs(A, {"IDLE"}),
              charging_agvs |-> CountAGVs(A, {"CHARGING"}),
              pending_tasks |-> Len(get_pending_tasks(T)),
              completed_tasks |->
                  Cardinality({t \in TaskIds : T[t].present /\ is_completed(T[t])}),
              average_battery |->
                  IF AGVOrder = <<>> THEN Frac(0, 1)
                  ELSE Lowest(Frac(SumBattery(A, AGVOrder), 100 * Len(AGVOrder))),
              fleet_efficiency |-> Frac(0, 1)]
    IN [m EXCEPT !.fleet_efficiency = calculate_efficiency(m)]

get_fleet_overview(A, T) == FleetMetrics(A, T)

(***************************************************************************)
(* The functions of the engine that read the state or their argument and   *)
(* change nothing, applied once to the fleet as it stands or to an         *)
(* argument from a bounded set; probe keeps the argument and the result.   *)
(***************************************************************************)
Applied(fn, arg, out) == [fn |-> fn, arg |-> arg, out |-> out]

\* metrics handed to calculate_efficiency directly: up to MaxFleet AGVs,
\* any number of them active, the average battery one of BatteryLevels
MaxFleet == 3

BatteryLevels == {0, 40, 49, 50, 51, 100}

MetricInputs ==
    {[total_agvs |-> n, active_agvs |-> k, idle_agvs |-> n - k, charging_agvs |-> 0,
      pending_tasks |-> 0, completed_tasks |-> 0, average_battery |-> Frac(b, 1),
      fleet_efficiency |-> Frac(0, 1)] :
        n \in 0..MaxFleet, k \in 0..MaxFleet, b \in BatteryLevels}

(***************************************************************************)
(* The fallbacks of the advisor (adapters/openai_adapter.py): what         *)
(* predict_congestion and generate_fleet_insights return from their except *)
(* branch, when the call to the language model fails.                      *)
(***************************************************************************)
GridSize == 50

ReportedCount == 2

HighCount == 4

\* variant: int(v / 50) * 50, which rounds towards zero
gridTruncated(v) ==
    IF v >= 0 THEN (v \div GridSize) * GridSize
    ELSE 0 - (((0 - v) \div GridSize) * GridSize)

\* int(v // 50) * 50: // rounds down, as \div does
grid(v) == (v \div GridSize) * GridSize

\* the waypoints of all routes, in the order of the two nested loops
RECURSIVE Waypoints(_)
Waypoints(routes) ==
    IF routes = <<>> THEN <<>> ELSE Head(routes) \o Waypoints(Tail(routes))

\* waypoint_density after the loops: the cells in the order their key was
\* first inserted, each with its count
RECURSIVE Density(_, _)
Density(wps, cells) ==
    IF wps = <<>> THEN cells
    ELSE LET key == Pos(grid(Head(wps).x), grid(Head(wps).y))
             seen == {i \in 1..Len(cells) : cells[i].key = key}
         IN IF seen = {}
            THEN Density(Tail(wps), Append(cells, [key |-> key, count |-> 1]))
            ELSE Density(Tail(wps),
                         [i \in 1..Len(cells) |->
                             IF i \in seen
                             THEN [cells[i] EXCEPT !.count = cells[i].count + 1]
                             ELSE cells[i]])

waypoint_density(routes) == Density(Waypoints(routes), <<>>)

RECURSIVE CongestionZones(_)
CongestionZones(cells) ==
    IF cells = <<>> THEN <<>>
    ELSE IF Head(cells).count > ReportedCount
         THEN <<[coordinates |-> Head(cells).key,
                 congestion_level |->
                     IF Head(cells).count > HighCount THEN "HIGH" ELSE "MEDIUM",
                 estimated_delay |-> FracMul(Frac(Head(cells).count, 1), Frac(5, 2))]>>
              \o CongestionZones(Tail(cells))
         ELSE CongestionZones(Tail(cells))

\* the except branch of predict_congestion
predict_congestion(routes) == CongestionZones(waypoint_density(routes))

\* routes of up to MaxWaypoints waypoints in all, over points on both sides
\* of the cell borders
MaxWaypoints == 5

RoutePoints == {Pos(0, 0), Pos(49, 49), Pos(50, 0), Pos(0 - 1, 0 - 1)}

RECURSIVE SeqsUpTo(_, _)
SeqsUpTo(S, n) ==
    IF n = 0 THEN {<<>>}
    ELSE LET shorter == SeqsUpTo(S, n - 1)
         IN shorter \cup {Append(s, x) : s \in {q \in shorter : Len(q) = n - 1}, x \in S}

\* two routes: every way of cutting a sequence of waypoints in two
RouteInputs ==
    UNION {{<<SubSeq(wps, 1, k), SubSeq(wps, k + 1, Len(wps))>> : k \in 0..Len(wps)} :
              wps \in SeqsUpTo(RoutePoints, MaxWaypoints)}

PredictCongestion ==
    /\ probe = NoProbe
    /\ \E routes \in RouteInputs :
          probe' = Applied("predict_congestion", routes, predict_congestion(routes))
    /\ UNCHANGED <<advisor, agvs, tasks, last, ticks, calls, disk, pc>>

EfficiencyTarget == Frac(7, 10)

BatteryTarget == Frac(50, 1)

\* variant: the battery alert also at exactly 50
insight_fallbackInclusive(fleet_data) ==
    IF ~fleet_data.has_metrics THEN <<>>
    ELSE (IF FracLess(fleet_data.metrics.fleet_efficiency, EfficiencyTarget)
          THEN <<[category |-> "EFFICIENCY", impact |-> "MEDIUM", priority |-> 2]>>
          ELSE <<>>)
         \o (IF ~FracLess(BatteryTarget, fleet_data.metrics.average_battery)
             THEN <<[category |-> "ALERT", impact |-> "HIGH", priority |-> 1]>>
             ELSE <<>>)

\* the except branch of generate_fleet_insights; has_metrics is whether
\* fleet_data.get("metrics") is a non-empty dictionary
insight_fallback(fleet_data) ==
    IF ~fleet_data.has_metrics THEN <<>>
    ELSE (IF FracLess(fleet_data.metrics.fleet_efficiency, EfficiencyTarget)
          THEN <<[category |-> "EFFICIENCY", impact |-> "MEDIUM", priority |-> 2]>>
          ELSE <<>>)
         \o (IF FracLess(fleet_data.metrics.average_battery, BatteryTarget)
             THEN <<[category |-> "ALERT", impact |-> "HIGH", priority |-> 1]>>
             ELSE <<>>)

EfficiencyLevels ==
    {Frac(0, 1), Frac(1, 2), Frac(69, 100), Frac(7, 10), Frac(71, 100), Frac(1, 1),
     Frac(50, 1)}

InsightInputs ==
    {[has_metrics |-> h,
      metrics |-> [fleet_efficiency |-> e, average_battery |-> Frac(b, 1)]] :
        h \in BOOLEAN, e \in EfficiencyLevels, b \in BatteryLevels}

GenerateFleetInsights ==
    /\ probe = NoProbe
    /\ \E fleet_data \in InsightInputs :
          probe' = Applied("generate_fleet_insights", fleet_data,
                           insight_fallback(fleet_data))
    /\ UNCHANGED <<advisor, agvs, tasks, last, ticks, calls, disk, pc>>

\* GET /api/fleet/overview
GetFleetOverview ==
    /\ probe = NoProbe
    /\ probe' = Applied("get_fleet_overview", [agvs |-> agvs, tasks |-> tasks],
                        get_fleet_overview(agvs, tasks))
    /\ UNCHANGED <<advisor, agvs, tasks, last, ticks, calls, disk, pc>>

CalculateEfficiency ==
    /\ probe = NoProbe
    /\ \E m \in {i \in MetricInputs : i.active_agvs <= i.total_agvs} :
          probe' = Applied("calculate_efficiency", m,
                           [m EXCEPT !.fleet_efficiency = calculate_efficiency(m)])
    /\ UNCHANGED <<advisor, agvs, tasks, last, ticks, calls, disk, pc>>

(***************************************************************************)
(* The CSV files (adapters/data_adapter.py, _save_agvs, _save_tasks,       *)
(* _load_data), on entities with all the fields of the dataclasses.  A     *)
(* datetime is the name of its instant, a float the number it holds; a     *)
(* CSV cell is the empty string, EmptyCell, or the text of a value v,      *)
(* <<"text", v>>.                                                          *)
(***************************************************************************)
EmptyCell == <<>>

Text(v) == <<"text", v>>

\* float(cell), datetime.fromisoformat(cell), AGVStatus(cell) on a cell
\* written by str, isoformat or .value
Parse(cell) == cell[2]

\* x or "" for an optional string; isoformat() if set else ""
OrEmpty(v) == IF v = None \/ v = "" THEN EmptyCell ELSE Text(v)

\* cell if cell else None
OrNone(cell) == IF cell = EmptyCell THEN None ELSE Parse(cell)

DefaultMaxSpeed == 20

DefaultLoadCapacity == 2000

\* the row _save_agvs writes for an AGV
AGVRow(agv) ==
    [agv_id |-> Text(agv.agv_id), name |-> Text(agv.name),
     position_x |-> Text(agv.position.x), position_y |-> Text(agv.position.y),
     battery_level |-> Text(agv.battery_level), status |-> Text(agv.status),
     current_task_id |-> OrEmpty(agv.current_task_id),
     last_update |-> OrEmpty(agv.last_update)]

\* the AGV _load_data builds from a row; Now is what datetime.now() gives
\* __post_init__ for a missing last_update
AGVFromRow(row, Now) ==
    [agv_id |-> Parse(row.agv_id), name |-> Parse(row.name),
     position |-> [x |-> Parse(row.position_x), y |-> Parse(row.position_y),
                   zone |-> ""],
     battery_level |-> Parse(row.battery_level), status |-> Parse(row.status),
     current_task_id |-> OrNone(row.current_task_id),
     max_speed |-> DefaultMaxSpeed, load_capacity |-> DefaultLoadCapacity,
     last_update |-> IF row.last_update = EmptyCell THEN Now ELSE Parse(row.last_update)]

\* Task.__post_init__: distance / 1000 / 20 * 60 + 5 minutes
EstimatedDuration(origin, destination) ==
    FracAdd(Frac(3 * Isqrt(distance2(origin, destination)), 1000), Frac(5, 1))

\* the row _save_tasks writes for a task
TaskRow(task) ==
    [task_id |-> Text(task.task_id), description |-> Text(task.description),
     origin_x |-> Text(task.origin.x), origin_y |-> Text(task.origin.y),
     destination_x |-> Text(task.destination.x),
     destination_y |-> Text(task.destination.y),
     priority |-> Text(task.priority), container_id |-> OrEmpty(task.container_id),
     assigned_agv_id |-> OrEmpty(task.assigned_agv_id),
     created_at |-> OrEmpty(task.created_at), started_at |-> OrEmpty(task.started_at),
     completed_at |-> OrEmpty(task.completed_at)]

\* the Task _load_data builds from a row
TaskFromRow(row, Now) ==
    LET origin == [x |-> Parse(row.origin_x), y |-> Parse(row.origin_y), zone |-> ""]
        destination == [x |-> Parse(row.destination_x),
                        y |-> Parse(row.destination_y), zone |-> ""]
    IN [task_id |-> Parse(row.task_id), description |-> Parse(row.description),
        origin |-> origin, destination |-> destination,
        priority |-> Parse(row.priority), container_id |-> OrNone(row.container_id),
        assigned_agv_id |-> OrNone(row.assigned_agv_id),
        created_at |-> IF row.created_at = EmptyCell THEN Now ELSE Parse(row.created_at),
        started_at |-> OrNone(row.started_at),
        completed_at |-> OrNone(row.completed_at),
        estimated_duration |-> EstimatedDuration(origin, destination)]

\* the instants of the entities written, and the later one of the reload
Instants == {"t1", "t2"}

ReloadInstant == "t9"

\* AGVs as create_agv and update_agv may be handed them
AGVInputs ==
    {[agv_id |-> "AGV-001", name |-> "Alfa Prime",
      position |-> [x |-> 100, y |-> 50, zone |-> z],
      battery_level |-> b, status |-> s, current_task_id |-> t, max_speed |-> v,
      load_capacity |-> c, last_update |-> u] :
        z \in {"", "DOCK"}, b \in {0, 8550}, s \in {"IDLE", "MOVING", "CHARGING"},
        t \in {None, "TSK-001"}, v \in {DefaultMaxSpeed, 25},
        c \in {DefaultLoadCapacity, 1500}, u \in Instants}

\* tasks as create_task and update_task may be handed them
TaskInputs ==
    {[task_id |-> "TSK-001", description |-> "Contenedor", 
      origin |-> [x |-> 0, y |-> 0, zone |-> ""],
      destination |-> [x |-> 1000, y |-> 0, zone |-> z],
      priority |-> "HIGH", container_id |-> k, assigned_agv_id |-> a,
      created_at |-> "t1", started_at |-> st, completed_at |-> co,
      estimated_duration |-> e] :
        z \in {"", "YARD"}, k \in {None, "CONT-1"}, a \in {None, "AGV-001"},
        st \in {None, "t1"}, co \in {None, "t2"},
        e \in {EstimatedDuration(Pos(0, 0), Pos(1000, 0)), Frac(12, 1)}}

\* create_agv or update_agv, then a new CSVDataAdapter and get_agv_by_id
AGVRoundTrip ==
    /\ probe = NoProbe
    /\ \E agv \in AGVInputs :
          probe' = Applied("agv_round_trip", agv, AGVFromRow(AGVRow(agv), ReloadInstant))
    /\ UNCHANGED <<advisor, agvs, tasks, last, ticks, calls, disk, pc>>

\* create_task or update_task, then a new CSVDataAdapter and get_task_by_id
TaskRoundTrip ==
    /\ probe = NoProbe
    /\ \E task \in TaskInputs :
          probe' = Applied("task_round_trip", task,
                           TaskFromRow(TaskRow(task), ReloadInstant))
    /\ UNCHANGED <<advisor, agvs, tasks, last, ticks, calls, disk, pc>>

\* the lists recommend_task_assignment may be handed: AGVs on either side of
\* the battery threshold, tasks whose origins are at equal and at different
\* distances from them
GreedyRosters ==
    {Roster(AGV(p1, b1, "IDLE", None), AGV(p2, b2, "IDLE", None)) :
        p1 \in {Pos(0, 0)}, p2 \in {Pos(0, 0), Pos(40, 0)},
        b1 \in {GreedyBattery, GreedyBattery + 1}, b2 \in {2500, GreedyBattery + 1}}

GreedyPools ==
    {[t \in TaskIds |-> Task(o[t], Pos(100, 0), "MEDIUM", None, FALSE, FALSE)] :
        o \in [TaskIds -> {Pos(0, 0), Pos(30, 0), Pos(50, 0)}]}

SubSeqs(seq) == {FilterSeq(seq, keep) : keep \in SUBSET {seq[i] : i \in 1..Len(seq)}}

GreedyInputs ==
    {[agvs |-> A, tasks |-> T, agv_ids |-> AGVOrder, task_ids |-> ts] :
        A \in GreedyRosters, T \in GreedyPools, ts \in SubSeqs(TaskOrder)}

\* recommend_task_assignment when the call to the language model fails
RecommendTaskAssignment ==
    /\ probe = NoProbe
    /\ \E in \in GreedyInputs :
          probe' = Applied("recommend_task_assignment", in,
                           GreedyAssign(in.agv_ids, in.task_ids, in.agvs, in.tasks))
    /\ UNCHANGED <<advisor, agvs, tasks, last, ticks, calls, disk, pc>>

(***************************************************************************)
(* Task progress (domain/entities.py, Task.get_progress_percentage).  An   *)
(* instant is a number of minutes, an absent datetime the empty tuple and  *)
(* a present one the tuple of its instant.                                 *)
(***************************************************************************)
NoInstant == <<>>

is_in_progress(task) ==
    /\ task.started_at # NoInstant
    /\ ~task.completed_at
    /\ task.assigned_agv_id # None

\* min(100.0, (elapsed / self.estimated_duration) * 100) while in progress
get_progress_percentage(task, now) ==
    IF ~is_in_progress(task)
    THEN IF ~task.completed_at THEN Frac(0, 1) ELSE Frac(100, 1)
    ELSE LET elapsed == now - task.started_at[1]
             p == Lowest(Frac(elapsed * 100, task.estimated_duration))
         IN IF FracLess(Frac(100, 1), p) THEN Frac(100, 1) ELSE p

\* tasks as _create_sample_tasks and the assignment loop make them:
\* started_at absent, or base_time + 5 minutes, or a later instant; the
\* estimated duration is the 5 minutes of loading plus the travel time
ProgressTasks ==
    [started_at : {NoInstant, <<5>>, <<12>>}, completed_at : BOOLEAN,
     assigned_agv_id : {None, "AGV-002"}, estimated_duration : {5, 8}]

\* the instants at which the progress is asked for, base_time being 0
ProgressInstants == {0, 5, 7, 9, 12, 13, 20, 30}

GetProgressPercentage ==
    /\ probe = NoProbe
    /\ \E task \in ProgressTasks, now \in ProgressInstants :
          probe' = Applied("get_progress_percentage", [task |-> task, now |-> now],
                           get_progress_percentage(task, now))
    /\ UNCHANGED <<advisor, agvs, tasks, last, ticks, calls, disk, pc>>

PureInit ==
    /\ advisor = "present"
    /\ \E fleet \in Fleets : agvs = fleet.agvs /\ tasks = fleet.tasks
    /\ disk = [agvs |-> agvs, tasks |-> tasks]
    /\ last = Result("start", "returned", None, <<>>, <<>>)
    /\ ticks = 0
    /\ calls = 0
    /\ pc = Asleep
    /\ probe = NoProbe

PureNext ==
    \/ GetFleetOverview
    \/ CalculateEfficiency
    \/ PredictCongestion
    \/ GenerateFleetInsights
    \/ AGVRoundTrip
    \/ TaskRoundTrip
    \/ RecommendTaskAssignment
    \/ GetProgressPercentage

PureSpec == PureInit /\ [][PureNext]_vars

(***************************************************************************)
(* Claims.                                                                 *)
(***************************************************************************)
\* C1: in every reachable state every AGV's battery_level lies in [0, 100]
\* (here 0..10000 hundredths of a percent).
C1_BatteryWithinBounds ==
    \A a \in AGVIds :
        /\ agvs[a].battery_level >= BatteryMin
        /\ agvs[a].battery_level <= BatteryMax

\* a tick has drained an AGV down to the clamp at 0
C1_Witness ==
    /\ last.op = "tick"
    /\ \E a \in AGVIds : agvs[a].battery_level = BatteryMin

committed_pairs == {last.committed[i] : i \in 1..Len(last.committed)}

\* C2: the pairs one assign_optimal_tasks call commits are injective both
\* ways: no AGV and no task occurs in two committed pairs, and no two AGVs
\* end the call holding the same current_task_id.
C2_InjectiveAssignments ==
    last.op \in {"assign", "create"} =>
        /\ \A i, j \in 1..Len(last.committed) :
              i # j => /\ last.committed[i].agv_id # last.committed[j].agv_id
                       /\ last.committed[i].task_id # last.committed[j].task_id
        /\ \A e \in committed_pairs :
              \A b \in AGVIds \ {e.agv_id} : agvs[b].current_task_id # e.task_id

\* C3: assign_optimal_tasks never raises to its caller: every call returns
\* its result dictionary.
C3_AssignNeverRaises == last.op = "assign" => last.outcome = "returned"

\* the ticks the simulator takes to bring an AGV from position to
\* destination: one per step, and one more to find it within ArriveRadius
RECURSIVE TicksToArrive(_, _)
TicksToArrive(position, destination) ==
    IF distance2(destination, position) <= ArriveRadius * ArriveRadius THEN 1
    ELSE 1 + TicksToArrive(StepTowards(position, destination), destination)

\* the last call committed task t to AGV a, which was available, and the
\* ticks still to come suffice for the way
C4_Assigned(a, t) ==
    /\ last.op \in {"assign", "create"}
    /\ \E i \in 1..Len(last.committed) :
          /\ last.committed[i].agv_id = a
          /\ last.committed[i].task_id = t
          /\ last.committed[i].available
    /\ ticks + TicksToArrive(agvs[a].position, tasks[t].destination) <= LiveTicks

C4_Done(a, t) ==
    /\ agvs[a].position = tasks[t].destination
    /\ agvs[a].status = "IDLE"
    /\ agvs[a].current_task_id = None
    /\ tasks[t].completed_at

C4_Retargeted(a, t) == agvs[a].current_task_id \notin {t, None}

\* what does hold: the AGV completes the task unless it is committed to
\* another one on the way
C4_CompletesUnlessRetargeted ==
    \A a \in AGVIds, t \in TaskIds :
        C4_Assigned(a, t) ~> (C4_Done(a, t) \/ C4_Retargeted(a, t))

\* C5: in every reachable state, the AGV named by assigned_agv_id of a
\* completed task stands exactly at the task's destination.
C5_CompletedOwnerAtDestination ==
    \A t \in TaskIds :
        tasks[t].present /\ tasks[t].completed_at =>
            /\ tasks[t].assigned_agv_id \in AGVIds
            /\ agvs[tasks[t].assigned_agv_id].position = tasks[t].destination

\* C5, amended: the step that sets completed_at leaves an AGV that held the
\* task exactly at the task's destination, released from the task.
C5_CompletionAtDestination ==
    [][\A t \in TaskIds :
          ~tasks[t].completed_at /\ tasks'[t].completed_at =>
              \E a \in AGVIds :
                  /\ agvs[a].current_task_id = t
                  /\ agvs'[a].position = tasks[t].destination
                  /\ agvs'[a].current_task_id = None]_vars

\* a tick has just completed the emergency task created in this run
C5_Witness ==
    /\ last.op = "tick"
    /\ tasks[UrgentId].completed_at
    /\ \E a \in AGVIds :
          /\ agvs[a].position = tasks[UrgentId].destination
          /\ agvs[a].current_task_id = None

\* the last call committed a pair naming AGV a
Committed(result, a) ==
    /\ result.op \in {"assign", "create"}
    /\ \E i \in 1..Len(result.committed) : result.committed[i].agv_id = a

\* the four transitions of the status diagram, a tick counted as its
\* movement phase followed by its battery phase
ClaimedTransition(a) ==
    LET from == agvs[a].status
        to == agvs'[a].status
    IN \/ from = "IDLE" /\ to = "MOVING" /\ Committed(last', a)
       \/ /\ from \in {"MOVING", "TRANSPORTING"}
          /\ last'.op = "tick"
          /\ Arrives(agvs[a], tasks)
          /\ \/ to = "IDLE"
             \/ to = "CHARGING" /\ agvs'[a].battery_level < LowBattery
       \/ /\ from = "IDLE" /\ to = "CHARGING"
          /\ last'.op = "tick"
          /\ agvs'[a].battery_level < LowBattery
       \/ /\ from = "CHARGING" /\ to = "IDLE"
          /\ last'.op = "tick"
          /\ agvs'[a].battery_level >= ChargedBattery

\* the transitions the control operations and the assignment loop add
ControlTransition(a) ==
    LET from == agvs[a].status
        to == agvs'[a].status
    IN \/ /\ from = "IDLE" /\ to = "MOVING"
          /\ last'.op = "move" /\ last'.outcome = "success" /\ last'.agv_id = a
          /\ is_available(agvs[a])
       \/ /\ to = "IDLE"
          /\ last'.op = "stop" /\ last'.outcome = "success" /\ last'.agv_id = a
       \/ to = "MOVING" /\ Committed(last', a)

C7_TaskTimestampsOrdered ==
    \A t \in TaskIds :
        tasks[t].present =>
            /\ tasks[t].completed_at => tasks[t].started_at
            /\ tasks[t].started_at => tasks[t].assigned_agv_id # None

\* the emergency task was created, committed and completed in this run
C7_Witness ==
    /\ tasks[UrgentId].present
    /\ tasks[UrgentId].assigned_agv_id \in AGVIds
    /\ tasks[UrgentId].started_at
    /\ tasks[UrgentId].completed_at

\* C8: on the same repository state, assign_optimal_tasks without an
\* advisor and with an advisor that fails at the call return the same result
\* and make the same changes to AGVs and tasks.
C8_AbsentAsFailing ==
    assign_optimal_tasks(agvs, tasks, disk, "absent", [kind |-> "none", recs |-> <<>>])
        = assign_optimal_tasks(agvs, tasks, disk, "present",
                               [kind |-> "fails", recs |-> <<>>])

\* C9: every AGV that assign_optimal_tasks commits a task to satisfied
\* is_available when the call reached it.
C9_CommittedWereAvailable ==
    [][\A a \in AGVIds : Committed(last', a) => is_available(agvs[a])]_vars

\* what the loop may have done with the recommended pairs recs, from the
\* state (A, T), given the outcome r of the call
LoopKeptRule(A, T, recs, r) ==
    /\ Len(r.log) <= Len(recs)
    /\ \A i \in 1..Len(r.log) :
          LET e == r.log[i]
          IN /\ e.agv_id = recs[i].agv_id
             /\ e.task_id = recs[i].task_id
             /\ e.decision = "committed" =>
                   /\ e.agv_id \in AGVIds
                   /\ e.task_id \in TaskIds
                   /\ T[e.task_id].present
                   /\ can_reach(A[e.agv_id], T[e.task_id].destination)
                   /\ r.agvs[e.agv_id].current_task_id = e.task_id
             /\ e.decision = "dropped" =>
                   /\ e.agv_id \in AGVIds => r.agvs[e.agv_id] = A[e.agv_id]
                   /\ e.task_id \in TaskIds =>
                         \/ r.tasks[e.task_id] = T[e.task_id]
                         \/ \E j \in 1..Len(r.log) :
                               /\ r.log[j].decision = "committed"
                               /\ r.log[j].task_id = e.task_id
                   /\ i < Len(recs) => i < Len(r.log)
    /\ \A i \in 1..Len(recs) :
          /\ recs[i].agv_id \in AGVIds
          /\ recs[i].task_id \in TaskIds
          /\ T[recs[i].task_id].present
          /\ ~can_reach(A[recs[i].agv_id], T[recs[i].task_id].destination)
          => (i <= Len(r.log) => r.log[i].decision = "dropped")

\* C10: every pair assign_optimal_tasks commits satisfies can_reach at commit
\* time; a recommended pair that does not resolve or fails can_reach is
\* dropped with its AGV unchanged and its task untouched by the drop, and the
\* loop goes on to the next pair.
C10_UnreachablePairsDropped ==
    \A reply \in Replies(advisor) :
        LET r == assign_optimal_tasks(agvs, tasks, disk, advisor, reply)
        IN r.log # <<>> =>
               LoopKeptRule(agvs, tasks, Recommendations(agvs, tasks, reply), r)

\* a call has dropped a pair and gone on to commit a later one
C10_Witness ==
    /\ last.op = "assign"
    /\ last.dropped >= 1
    /\ Len(last.committed) >= 1

\* the AGVs a step changed
ChangedAGVs == {a \in AGVIds : agvs'[a] # agvs[a]}

\* C11: with two available AGVs and one pending task, one
\* assign_optimal_tasks call produces exactly one assignment, changes the
\* AGV of that assignment only, and leaves the other AGV IDLE with no
\* current_task_id.
C11_OneAssignmentOtherIdle ==
    [][(/\ Len(get_available_agvs(agvs)) = 2
        /\ Len(get_pending_tasks(tasks)) = 1
        /\ last'.op = "assign")
       => /\ last'.outcome = "returned"
          /\ Len(last'.assignments) = 1
          /\ ChangedAGVs = {last'.assignments[1].agv_id}
          /\ \A a \in AGVIds \ ChangedAGVs :
                agvs'[a].status = "IDLE" /\ agvs'[a].current_task_id = None]_vars

\* C11, the frame part: an assign_optimal_tasks call changes no AGV other
\* than those of the pairs it committed.
C11_UnnamedAGVsUnchanged ==
    [][last'.op = "assign"
       => ChangedAGVs \subseteq
             {last'.committed[i].agv_id : i \in 1..Len(last'.committed)}]_vars

\* C18: send_agv_to_position and emergency_stop_agv given an AGV id the
\* repository does not hold return their error value and leave every AGV
\* and every task unchanged, in memory and in the files; get_agv_by_id and
\* get_task_by_id find nothing under an unknown id.
C18_UnknownIdChangesNothing ==
    [][(last'.op \in {"move", "stop"} /\ last'.agv_id \notin AGVIds)
       => /\ last'.outcome = "error"
          /\ agvs' = agvs
          /\ tasks' = tasks
          /\ disk' = disk
          /\ ~get_agv_by_id(agvs, last'.agv_id)
          /\ \A t \in TaskIds : ~tasks[t].present => ~get_task_by_id(tasks, t)]_vars

\* an emergency stop was requested for an unknown AGV while an AGV of the
\* roster was under way with a task
C18_Witness ==
    /\ last.op = "stop"
    /\ last.agv_id = UnknownAGV
    /\ last.outcome = "error"
    /\ \E a \in AGVIds : agvs[a].current_task_id # None

\* the state an emergency stop leaves: the stop took task t, not completed,
\* from its AGV, and no AGV holds t
JustStopped(t) ==
    /\ last.op = "stop"
    /\ last.outcome = "success"
    /\ last.released = t
    /\ ~tasks[t].completed_at
    /\ \A b \in AGVIds : agvs[b].current_task_id # t

\* C12: after an emergency stop took task T from its AGV, T stays as the
\* stop left it for ever: assigned_agv_id and started_at stay set (so T is
\* never pending again), completed_at is never set, and no AGV is given T.
C12_StoppedTaskDanglesForever ==
    \A t \in TaskIds, a \in AGVIds :
        [](JustStopped(t) /\ tasks[t].assigned_agv_id = a
           => [](/\ tasks[t].assigned_agv_id = a
                 /\ tasks[t].started_at
                 /\ ~tasks[t].completed_at
                 /\ \A b \in AGVIds : agvs[b].current_task_id # t))

\* C13: the fleet_efficiency of every FleetMetrics snapshot equals
\* 0.7 * (active_agvs / total_agvs) + 0.3 * (average_battery / 100), lies
\* in [0, 1], and is 0 for a fleet without AGVs.
C13_EfficiencyIsWeightedFraction ==
    probe.fn \in {"get_fleet_overview", "calculate_efficiency"}
    => LET m == probe.out
       IN /\ m.total_agvs = 0 => FracEq(m.fleet_efficiency, Frac(0, 1))
          /\ m.total_agvs > 0
                => FracEq(m.fleet_efficiency,
                          FracAdd(FracMul(Frac(7, 10),
                                          Frac(m.active_agvs, m.total_agvs)),
                                  FracMul(Frac(3, 10),
                                          FracMul(m.average_battery, Frac(1, 100)))))
          /\ ~FracLess(m.fleet_efficiency, Frac(0, 1))
          /\ ~FracLess(Frac(1, 1), m.fleet_efficiency)

\* C13, what the code computes: fleet_efficiency is 100 times the weighted
\* sum, a value in [0, 100], and 0 for a fleet without AGVs.
C13_EfficiencyIsPercentage ==
    probe.fn \in {"get_fleet_overview", "calculate_efficiency"}
    => LET m == probe.out
       IN /\ FracEq(m.fleet_efficiency,
                    FracMul(Frac(100, 1), calculate_efficiencyFraction(m)))
          /\ ~FracLess(m.fleet_efficiency, Frac(0, 1))
          /\ ~FracLess(Frac(100, 1), m.fleet_efficiency)

\* the waypoints of the argument that lie in the 50 x 50 cell with corner c
InCell(wps, c) ==
    {i \in 1..Len(wps) : /\ c.x <= wps[i].x /\ wps[i].x < c.x + GridSize
                         /\ c.y <= wps[i].y /\ wps[i].y < c.y + GridSize}

\* the corners of the cells around RoutePoints
Cells == {Pos(x, y) : x \in {0 - GridSize, 0, GridSize}, y \in {0 - GridSize, 0, GridSize}}

\* the entries of the result that report cell c
ZonesAt(zones, c) == {i \in 1..Len(zones) : zones[i].coordinates = c}

\* C19: the congestion fallback puts every waypoint into the cell
\* (floor(x/50)*50, floor(y/50)*50) and reports exactly the cells holding
\* more than 2 waypoints, once each, MEDIUM up to 4 and HIGH above, with
\* estimated_delay = count * 2.5.
C19_CongestionFallback ==
    probe.fn = "predict_congestion"
    => LET wps == Waypoints(probe.arg)
           zones == probe.out
       IN /\ \A c \in Cells :
                LET count == Cardinality(InCell(wps, c))
                IN IF count > 2
                   THEN /\ Cardinality(ZonesAt(zones, c)) = 1
                        /\ \A i \in ZonesAt(zones, c) :
                              /\ zones[i].congestion_level =
                                    IF count <= 4 THEN "MEDIUM" ELSE "HIGH"
                              /\ zones[i].estimated_delay = Lowest(Frac(count * 5, 2))
                   ELSE ZonesAt(zones, c) = {}
          /\ \A i \in 1..Len(zones) : zones[i].coordinates \in Cells

\* five waypoints in one cell, spread over two routes: that cell alone is
\* reported, HIGH, with a delay of 12.5
C19_Witness ==
    /\ probe.fn = "predict_congestion"
    /\ \A i \in 1..Len(probe.arg) : probe.arg[i] # <<>>
    /\ Cardinality(InCell(Waypoints(probe.arg), Pos(0, 0))) = 5
    /\ probe.out = <<[coordinates |-> Pos(0, 0), congestion_level |-> "HIGH",
                      estimated_delay |-> Frac(25, 2)]>>

\* the insights of the result with the given category, impact and priority
InsightsLike(insights, category, impact, priority) ==
    {i \in 1..Len(insights) :
        insights[i] = [category |-> category, impact |-> impact, priority |-> priority]}

\* C20: for given metrics the insight fallback emits one EFFICIENCY / MEDIUM
\* / priority 2 insight iff fleet_efficiency < 0.7, one ALERT / HIGH /
\* priority 1 insight iff average_battery < 50, and nothing else.
C20_InsightFallback ==
    (probe.fn = "generate_fleet_insights" /\ probe.arg.has_metrics)
    => LET m == probe.arg.metrics
           low_efficiency == m.fleet_efficiency.num * 10 < 7 * m.fleet_efficiency.den
           low_battery == m.average_battery.num < 50 * m.average_battery.den
           efficiency == InsightsLike(probe.out, "EFFICIENCY", "MEDIUM", 2)
           alert == InsightsLike(probe.out, "ALERT", "HIGH", 1)
       IN /\ Cardinality(efficiency) = IF low_efficiency THEN 1 ELSE 0
          /\ Cardinality(alert) = IF low_battery THEN 1 ELSE 0
          /\ efficiency \cup alert = 1..Len(probe.out)

\* average_battery 40 and fleet_efficiency 0.5 gave exactly the two insights
C20_Witness ==
    /\ probe.fn = "generate_fleet_insights"
    /\ probe.arg.has_metrics
    /\ probe.arg.metrics.average_battery = Frac(40, 1)
    /\ probe.arg.metrics.fleet_efficiency = Frac(1, 2)
    /\ Len(probe.out) = 2

\* C17: an AGV or a task written to the files and read back has every
\* field as it was written.
C17_RoundTripIdentity ==
    probe.fn \in {"agv_round_trip", "task_round_trip"} => probe.out = probe.arg

\* C17, what the files keep: every field but an AGV's max_speed and
\* load_capacity, a task's estimated_duration, and the zone of a position.
C17_RoundTripOfSavedFields ==
    /\ probe.fn = "agv_round_trip"
          => probe.out = [probe.arg EXCEPT !.max_speed = DefaultMaxSpeed,
                                           !.load_capacity = DefaultLoadCapacity,
                                           !.position.zone = ""]
    /\ probe.fn = "task_round_trip"
          => probe.out = [probe.arg EXCEPT
                             !.estimated_duration =
                                 EstimatedDuration(probe.arg.origin,
                                                   probe.arg.destination),
                             !.origin.zone = "", !.destination.zone = ""]

\* the step that ends a tick
EndsTick == pc.k = 2 * NumAGVs /\ pc'.k = 0

\* C14: a tick and a request that touch the same AGV never interleave
\* partially: a request is handled only while no tick is under way, and the
\* fleet a tick leaves is the fleet the whole tick makes of the fleet it
\* began with, so every run is a serial order of ticks and requests.
C14_TicksAndRequestsSerial ==
    [][/\ calls' # calls => pc.k = 0 /\ pc'.k = 0
       /\ EndsTick
             => /\ agvs' = simulate_battery_changes(
                               simulate_agv_movement(pc.start.agvs, pc.start.tasks,
                                                     pc.rnd), pc.rnd)
                /\ tasks' = CompleteArrived(pc.start.agvs, pc.start.tasks)]_vars

\* a tick moved an AGV that a request had sent on its way before, and ended
C14_Witness ==
    /\ pc.k = 0
    /\ ticks > 0
    /\ last.op = "step"
    /\ calls > 0
    /\ \E a \in AGVIds :
          /\ pc.start.agvs[a].status = "MOVING"
          /\ pc.start.agvs[a].current_task_id = "TSK-002"
          /\ agvs[a].position # pc.start.agvs[a].position

\* C15: wherever a tick can be interrupted - after any of its iterations -
\* every AGV is in the files as it is in memory, and every task completed
\* in memory is completed in the files, given that they agreed when the
\* tick began.
C15_MemoryEqualsFilesInsideTick ==
    (last.op = "step" /\ pc.clean)
    => /\ \A a \in AGVIds : disk.agvs[a] = agvs[a]
       /\ \A t \in TaskIds : tasks[t].completed_at => disk.tasks[t].completed_at

\* C16: when update_agv or update_task returns False in an iteration of the
\* tick, the AGV and its task are left as they were before the iteration.
C16_FailedUpdateLeavesEntityUnchanged ==
    [][(last'.op = "step" /\ last'.outcome = "unsaved")
       => agvs' = agvs /\ tasks' = tasks]_vars

\* C16, the other half: whatever update_agv returns, the tick goes on to
\* its next iteration.
C16_TickContinuesAfterFailedUpdate ==
    [][(last'.op = "step" /\ last'.outcome = "unsaved")
       => pc'.k = (pc.k + 1) % (2 * NumAGVs + 1)]_vars

\* the position of x in a sequence without repetitions
IndexOf(seq, x) == CHOOSE i \in 1..Len(seq) : seq[i] = x

\* C21: the greedy heuristic goes through the AGVs in order; each AGV with
\* battery > 30 gets the task still in the pool whose origin is nearest to
\* it, the first such task on a tie, and that task leaves the pool; AGVs
\* with battery <= 30 get nothing; no task is named twice and the map has
\* min(#eligible AGVs, #tasks) entries.
C21_GreedyNearestFirst ==
    probe.fn = "recommend_task_assignment"
    => LET in == probe.arg
           out == probe.out
           eligible == FilterSeq(in.agv_ids,
                                 {a \in AGVIds : in.agvs[a].battery_level > 3000})
           pool(k) == {t \in TaskIds :
                          /\ \E i \in 1..Len(in.task_ids) : in.task_ids[i] = t
                          /\ \A j \in 1..(k - 1) : out[j].task_id # t}
           dist(k, t) == distance2(in.agvs[out[k].agv_id].position, in.tasks[t].origin)
       IN /\ Len(out) = Min(Len(eligible), Len(in.task_ids))
          /\ \A k \in 1..Len(out) :
                /\ out[k].agv_id = eligible[k]
                /\ out[k].task_id \in pool(k)
                /\ \A t \in pool(k) :
                      \/ dist(k, out[k].task_id) < dist(k, t)
                      \/ /\ dist(k, out[k].task_id) = dist(k, t)
                         /\ IndexOf(in.task_ids, out[k].task_id)
                               <= IndexOf(in.task_ids, t)
          /\ \A j, k \in 1..Len(out) : j # k => out[j].task_id # out[k].task_id

\* two eligible AGVs and three tasks: the second AGV, with two remaining
\* tasks at the same distance, got the first of them
C21_Witness ==
    /\ probe.fn = "recommend_task_assignment"
    /\ Len(probe.out) = 2
    /\ Len(probe.arg.task_ids) = 3
    /\ LET a == probe.arg.agvs[probe.out[2].agv_id]
           rest == {t \in TaskIds : t # probe.out[1].task_id}
       IN /\ \A s, t \in rest :
                distance2(a.position, probe.arg.tasks[s].origin)
                   = distance2(a.position, probe.arg.tasks[t].origin)
          /\ \A t \in rest :
                IndexOf(probe.arg.task_ids, probe.out[2].task_id)
                   <= IndexOf(probe.arg.task_ids, t)

\* the tasks a step changed
ChangedTasks == {t \in TaskIds : tasks'[t] # tasks[t]}

\* C22: for every pair in the list assign_optimal_tasks built, the task is
\* assigned to the AGV and started, the AGV is MOVING with the task, both
\* are in the files, and one task_assigned event was emitted for the pair;
\* the number of pairs is the number of AGVs, and of tasks, the call changed.
C22_AssignedPairsCommittedAndPersisted ==
    [][last'.op = "assign"
       => /\ \A i \in 1..Len(last'.assignments) :
                LET a == last'.assignments[i].agv_id
                    t == last'.assignments[i].task_id
                IN /\ tasks'[t].assigned_agv_id = a
                   /\ tasks'[t].started_at
                   /\ agvs'[a].status = "MOVING"
                   /\ agvs'[a].current_task_id = t
                   /\ disk'.agvs[a] = agvs'[a]
                   /\ disk'.tasks[t] = tasks'[t]
                   /\ Cardinality({j \in 1..Len(last'.events) :
                          last'.events[j] = [type |-> "task_assigned",
                                             agv_id |-> a, task_id |-> t]}) = 1
          /\ Len(last'.assignments) = Cardinality(ChangedAGVs)
          /\ Len(last'.assignments) = Cardinality(ChangedTasks)]_vars

\* C23: a tick changes every AGV at most once: an AGV the movement phase
\* moved or released is left by the tick as the movement phase left it,
\* without the idle drain, the charge or a switch to CHARGING on top.
C23_OneUpdatePerTick ==
    [][last'.op = "tick"
       => \A a \in AGVIds :
             Driving(agvs[a], tasks)
                => \E draw \in Draws : agvs'[a] = MoveOne(agvs[a], tasks, draw)]_vars

\* C23, what does hold: an AGV that does not arrive is changed by one
\* phase only.
C23_OneUpdateUnlessArriving ==
    [][last'.op = "tick"
       => \A a \in AGVIds :
             ~Arrives(agvs[a], tasks)
                => \E draw \in Draws :
                      \/ agvs'[a] = MoveOne(agvs[a], tasks, draw)
                      \/ agvs'[a] = BatteryOne(agvs[a], draw)]_vars

\* the step is the movement iteration of AGV a
MovementIterationOf(a) ==
    /\ pc.k \in 1..NumAGVs
    /\ AGVOrder[pc.k] = a
    /\ pc'.k = pc.k + 1

C25_ChargingEndsIdle ==
    /\ [][\A a \in AGVIds :
             agvs[a].status = "CHARGING"
             => /\ \E gain \in ChargeGainLo..ChargeGainHi :
                      agvs'[a].battery_level
                         = Min(BatteryMax, agvs[a].battery_level + gain)
                /\ agvs'[a].status
                      = IF agvs'[a].battery_level >= ChargedBattery
                        THEN "IDLE" ELSE "CHARGING"]_vars
    /\ [](last.op = "tick"
            => \A a \in AGVIds :
                  ~(agvs[a].status = "CHARGING"
                       /\ agvs[a].battery_level >= ChargedBattery))
    /\ \A a \in AGVIds : (agvs[a].status = "CHARGING") ~> (agvs[a].status = "IDLE")

\* a tick has just taken a charging AGV to exactly 90 and made it IDLE
C25_Witness ==
    /\ last.op = "tick"
    /\ agvs["AGV-001"].status = "IDLE"
    /\ agvs["AGV-001"].battery_level = ChargedBattery

\* C26: in a tick an IDLE AGV loses between 0.01 and 0.05 of battery, not
\* below 0, and is CHARGING after the tick only if the battery left is
\* below 20, IDLE otherwise; with the trigger not failing forever, an AGV
\* that is IDLE with battery below 20 eventually becomes CHARGING, and so
\* does any AGV that is IDLE and not available.
C26_IdleDrainsThenCharges ==
    /\ [][\A a \in AGVIds :
             agvs[a].status = "IDLE"
             => /\ \E loss \in IdleDrainLo..IdleDrainHi :
                      agvs'[a].battery_level
                         = Max(BatteryMin, agvs[a].battery_level - loss)
                /\ agvs'[a].status \in {"IDLE", "CHARGING"}
                /\ agvs'[a].status = "CHARGING"
                      => agvs'[a].battery_level < LowBattery]_vars
    /\ \A a \in AGVIds :
          (agvs[a].status = "IDLE" /\ agvs[a].battery_level < LowBattery)
             ~> (agvs[a].status = "CHARGING")
    /\ \A a \in AGVIds :
          (agvs[a].status = "IDLE" /\ ~is_available(agvs[a]))
             ~> (agvs[a].status = "CHARGING")

\* a tick has just switched an AGV to CHARGING with the battery the idle
\* drain took below 20 in that very tick
C26_Witness ==
    /\ last.op = "tick"
    /\ agvs["AGV-001"].status = "CHARGING"
    /\ agvs["AGV-001"].battery_level \in (LowBattery - IdleDrainHi)..(LowBattery - 1)

\* C27: when no AGV is available or no task is pending, assign_optimal_tasks
\* returns (it does not raise, even with no advisor configured or with an
\* advisor whose reply cannot be read: the advisor is not asked) with an
\* empty list of assignments, hands no event to the notification service,
\* and leaves every AGV, every task and both files as they were.
C27_NothingToAssign ==
    [][(last'.op = "assign" /\ calls' # calls
          /\ (get_available_agvs(agvs) = <<>> \/ get_pending_tasks(tasks) = <<>>))
       => /\ last'.outcome = "returned"
          /\ last'.assignments = <<>>
          /\ last'.events = <<>>
          /\ last'.committed = <<>>
          /\ last'.dropped = 0
          /\ agvs' = agvs
          /\ tasks' = tasks
          /\ disk' = disk]_vars

\* assign_optimal_tasks has just returned with no advisor configured and an
\* AGV available, no task being pending
C27_Witness ==
    /\ last.op = "assign"
    /\ last.outcome = "returned"
    /\ advisor = "absent"
    /\ get_available_agvs(agvs) # <<>>
    /\ get_pending_tasks(tasks) = <<>>

\* C28: optimize_route never raises, it returns the route of the language
\* model or else the fallback route of three waypoints: a call of
\* assign_optimal_tasks that committed a pair, and therefore called
\* optimize_route for it, returns.
C28_OptimizeRouteReturnsARoute ==
    (last.op = "assign" /\ last.committed # <<>>) => last.outcome = "returned"

\* C29: after send_agv_to_position succeeded for an AGV, repeated ticks
\* bring the AGV to the requested position, where it becomes IDLE again.
C29_ManualMoveArrives ==
    \A a \in AGVIds :
        (last.op = "move" /\ last.outcome = "success" /\ last.agv_id = a)
           ~> (agvs[a].status = "IDLE")

\* C30: no step of any operation puts an AGV into MAINTENANCE that was not
\* in it before, and a tick leaves an AGV that is in MAINTENANCE as it was:
\* status, position, battery and task unchanged, and no update_agv call for
\* it in either phase, so last_update is not written.
C30_MaintenanceInert ==
    /\ [][\A a \in AGVIds :
             agvs'[a].status = "MAINTENANCE" => agvs[a].status = "MAINTENANCE"]_vars
    /\ [][ticks' # ticks
             => \A a \in AGVIds :
                   agvs[a].status = "MAINTENANCE"
                   => /\ agvs'[a] = agvs[a]
                      /\ ~MovementUpdates(agvs[a])
                      /\ ~BatteryUpdates(agvs'[a])]_vars

\* a tick has just changed the battery of AGV-001 while AGV-002 is in
\* maintenance
C30_Witness ==
    /\ last.op = "tick"
    /\ agvs["AGV-002"].status = "MAINTENANCE"
    /\ agvs["AGV-001"].battery_level \notin {9000, 1500}

\* C31: a call of create_emergency_task that returns the error value has
\* stored no task, changed no AGV and sent no alert; a call that does not
\* return the error value has stored the task with priority URGENT.
C31_RefusedCreationStoresNothing ==
    [][(last'.op = "create" /\ calls' # calls)
       => IF last'.outcome = "error"
          THEN tasks' = tasks /\ agvs' = agvs /\ disk' = disk /\ last'.events = <<>>
          ELSE /\ ~tasks[UrgentId].present
               /\ tasks'[UrgentId].present
               /\ tasks'[UrgentId].priority = "URGENT"]_vars

\* C32: the cancellation of the simulation loop takes effect only while the
\* loop sleeps between two ticks and changes no AGV, task or file; the tick
\* that ran last before it ran to its end, leaving the fleet and the tasks
\* the whole tick makes of those it began with (an AGV that arrived is IDLE
\* and its task completed); after the cancellation no tick runs.
C32_CancelledBetweenTicks ==
    [][/\ (pc'.k < 0 /\ pc.k >= 0)
             => /\ pc.k = 0
                /\ UNCHANGED <<agvs, tasks, disk, ticks>>
                /\ last.op = "step"
                      => /\ agvs = simulate_battery_changes(
                                       simulate_agv_movement(pc.start.agvs,
                                                             pc.start.tasks, pc.rnd),
                                       pc.rnd)
                         /\ tasks = CompleteArrived(pc.start.agvs, pc.start.tasks)
       /\ pc.k < 0 => UNCHANGED <<agvs, tasks, disk, ticks, pc>>]_vars

\* the loop was cancelled right after a tick in which an AGV arrived
C32_Witness ==
    /\ pc.k < 0
    /\ ticks > 0
    /\ last.op = "step"
    /\ \E a \in AGVIds :
          /\ Arrives(pc.start.agvs[a], pc.start.tasks)
          /\ agvs[a].status = "IDLE"
          /\ tasks[pc.start.agvs[a].current_task_id].completed_at

\* C33: get_progress_percentage is within [0, 100]: 0 for a task that is
\* not in progress and not completed, 100 for a completed task, and
\* elapsed / estimated_duration * 100 clamped to [0, 100] for a task in
\* progress, whatever started_at is relative to the current time.
C33_ProgressWithinRange ==
    probe.fn = "get_progress_percentage"
    => LET task == probe.arg.task
           raw == Frac((probe.arg.now - task.started_at[1]) * 100,
                       task.estimated_duration)
       IN /\ ~FracLess(probe.out, Frac(0, 1))
          /\ ~FracLess(Frac(100, 1), probe.out)
          /\ task.completed_at => probe.out = Frac(100, 1)
          /\ (~task.completed_at /\ ~is_in_progress(task)) => probe.out = Frac(0, 1)
          /\ is_in_progress(task)
                => probe.out = IF FracLess(raw, Frac(0, 1)) THEN Frac(0, 1)
                               ELSE IF FracLess(Frac(100, 1), raw) THEN Frac(100, 1)
                               ELSE Lowest(raw)

\* the step is a call of assign_optimal_tasks in which the advisor call
\* ended in an exception (a deadline that expired included), so that the
\* greedy heuristic supplied the recommendations
AssignAfterAdvisorFailure ==
    /\ advisor = "present"
    /\ calls' # calls
    /\ LET r == assign_optimal_tasks(agvs, tasks, disk, advisor,
                                     [kind |-> "fails", recs |-> <<>>])
       IN /\ agvs' = r.agvs
          /\ tasks' = r.tasks
          /\ disk' = r.disk
          /\ last' = Result("assign", r.outcome, None, r.log, r.assignments)

\* C34: a call of assign_optimal_tasks whose advisor call did not answer
\* completes with the recommendations of the greedy heuristic and returns.
C34_ReturnsWithoutTheAdvisor ==
    [][AssignAfterAdvisorFailure => last'.outcome = "returned"]_vars

\* C35: when assign_optimal_tasks raises while handling a pair, the AGV and
\* the task of that pair, the last it committed, are as they were before
\* the call, in memory and in the files.
C35_FailedPairRolledBack ==
    [][(last'.op = "assign" /\ calls' # calls /\ last'.outcome = "raised"
          /\ last'.committed # <<>>)
       => LET e == last'.committed[Len(last'.committed)]
          IN /\ agvs'[e.agv_id] = agvs[e.agv_id]
             /\ tasks'[e.task_id] = tasks[e.task_id]
             /\ disk'.agvs[e.agv_id] = disk.agvs[e.agv_id]
             /\ disk'.tasks[e.task_id] = disk.tasks[e.task_id]]_vars

\* C36: in every state reached through ticks, assignments recommended by
\* the greedy heuristic, manual moves and emergency stops, the task an AGV
\* has as its current_task_id exists, has that AGV as its assigned_agv_id,
\* has started_at set and has no completed_at.
C36_CurrentTaskRefersBack ==
    \A a \in AGVIds :
        agvs[a].current_task_id # None
        => LET t == agvs[a].current_task_id
           IN /\ t \in TaskIds
              /\ tasks[t].present
              /\ tasks[t].assigned_agv_id = a
              /\ tasks[t].started_at
              /\ ~tasks[t].completed_at

\* the greedy heuristic has given AGV-001 the pending task while AGV-002
\* holds its own: two AGVs hold tasks, one of them since the last call
C36_Witness ==
    /\ last.op = "assign"
    /\ last.committed # <<>>
    /\ agvs["AGV-001"].current_task_id = "TSK-002"
    /\ agvs["AGV-002"].current_task_id = "TSK-001"

\* C37: through greedy assignment calls, ticks and emergency stops a task
\* is assigned at most once: assigned_agv_id, once set, does not change;
\* completed_at, once set, stays, and no AGV arrives for a task already
\* completed; a task assigned or completed is not among get_pending_tasks
\* afterwards; and no two AGVs have the same current_task_id.
C37_AssignedAtMostOnce ==
    /\ [][\A t \in TaskIds :
             /\ tasks[t].assigned_agv_id # None
                   => tasks'[t].assigned_agv_id = tasks[t].assigned_agv_id
             /\ tasks[t].completed_at => tasks'[t].completed_at
             /\ (tasks[t].present
                   /\ (tasks[t].assigned_agv_id # None \/ tasks[t].completed_at))
                   => \A i \in 1..Len(get_pending_tasks(tasks')) :
                         get_pending_tasks(tasks')[i] # t
             /\ \A a \in AGVIds :
                   (ticks' # ticks /\ Arrives(agvs[a], tasks)
                       /\ agvs[a].current_task_id = t)
                      => ~tasks[t].completed_at]_vars
    /\ [](\A a, b \in AGVIds :
             (a # b /\ agvs[a].current_task_id # None)
                => agvs[a].current_task_id # agvs[b].current_task_id)

\* after an emergency stop took TSK-001 from AGV-002, a greedy assignment
\* call had both AGVs available and left TSK-001 with AGV-002
C37_Witness ==
    /\ last.op = "assign"
    /\ last.committed # <<>>
    /\ agvs["AGV-002"].status = "IDLE"
    /\ agvs["AGV-002"].current_task_id = None
    /\ tasks["TSK-001"].assigned_agv_id = "AGV-002"
    /\ ~tasks["TSK-001"].completed_at

\* C38: in every reachable state an AGV that has a current_task_id is
\* MOVING or TRANSPORTING.
C38_TaskHoldersAreUnderWay ==
    \A a \in AGVIds :
        agvs[a].current_task_id # None => agvs[a].status \in {"MOVING", "TRANSPORTING"}

\* a call has just committed a task to an AGV that was CHARGING
C38_Witness ==
    /\ last.op \in {"assign", "create"}
    /\ \E i \in 1..Len(last.committed) :
          /\ disk.agvs[last.committed[i].agv_id].status = "CHARGING"
          /\ agvs[last.committed[i].agv_id].status = "MOVING"
          /\ agvs[last.committed[i].agv_id].current_task_id = last.committed[i].task_id

\* C39: an AGV that satisfied can_reach for the destination of its task
\* when the task was committed has battery above 0 for as long as it holds
\* the task, up to and including the tick in which it arrives.
C39_MarginSuffices ==
    [][\A a \in AGVIds :
          agvs[a].current_task_id # None
          => /\ agvs[a].battery_level > 0
             /\ agvs'[a].battery_level > 0]_vars

=============================================================================
